---- MODULE Spec2Model ----
(***************************************************************************)
(* Result aggregation and scoring engine of the PR review bot.             *)
(*                                                                         *)
(* Scores and weights are JavaScript numbers, computed here as the IEEE    *)
(* 754 doubles the program computes.  A line number that is `undefined`    *)
(* is AbsentNum, a string field that is `undefined` is AbsentStr.          *)
(***************************************************************************)
EXTENDS Integers, Sequences, FiniteSets, TLC

VARIABLES
    pc,             \* position of the request being served
    agentResults,   \* AgentResult[] handed to SummaryAgentService.summarizeResults
    reviewResult,   \* AgentResult under review (summarizeResults or an agent's analyze)
    aggregatedComments, \* deduplicated comments inside summarizeResults
    analysis,       \* EnhancedPRAnalysis handed to determineReviewEvent
    event,          \* review event resolved for the PR
    payload,        \* the request being served and the environment switches
    context,        \* the PR as the code host returns it, and what the LLM answers
    github,         \* what has been posted on the code host, and the calls that threw
    overallScore,   \* overallScore of the standard review (ReviewService)
    autoFix,        \* the fix AutoFixService.generateFix works on
    currentPersona, \* PRReviewAgentService.currentPersona, one for all requests
    requests,       \* the processFullPRAnalysis calls in flight
    parser,         \* a response handed to parseResponse, and what it returned
    branch,         \* the file on the PR branch, and the config it was rewritten under
    request,        \* the HTTP request the webhook controller is handling
    review,         \* the answer of the LLM to a standard review, and its ReviewResult
    registry        \* ReviewRulesConfig.rules, and the ids disabled and not enabled since

engineVars == <<agentResults, aggregatedComments, reviewResult, analysis, event>>

moreVars == <<request, review, registry>>

sideVars == <<currentPersona, requests, parser, branch, moreVars>>

hostVars == <<payload, context, github, overallScore, autoFix, sideVars>>

vars == <<pc, agentResults, aggregatedComments, reviewResult, analysis, event,
          payload, context, github, overallScore, autoFix, currentPersona, requests, parser,
          branch, request, review, registry>>

-----------------------------------------------------------------------------
(* Bounds *)

MaxFindings == 2

MaxAgents == 2

AbsentNum == -1

AbsentStr == "<undefined>"

Min(a, b) == IF a < b THEN a ELSE b

Max(a, b) == IF a > b THEN a ELSE b

-----------------------------------------------------------------------------
(* Unsigned integers of any size: little-endian sequences of 15-bit limbs  *)
(* without a leading zero limb, so that equal numbers are equal sequences.  *)

LimbBits == 15

LimbBase == 32768

RECURSIVE Pow2(_)
Pow2(n) == IF n = 0 THEN 1 ELSE 2 * Pow2(n - 1)

RECURSIVE BigTrim(_)
BigTrim(a) ==
    IF a # <<>> /\ a[Len(a)] = 0 THEN BigTrim(SubSeq(a, 1, Len(a) - 1)) ELSE a

RECURSIVE BigFromInt(_)
BigFromInt(n) ==
    IF n = 0 THEN <<>> ELSE <<n % LimbBase>> \o BigFromInt(n \div LimbBase)

RECURSIVE BigToInt(_)
BigToInt(a) == IF a = <<>> THEN 0 ELSE a[1] + LimbBase * BigToInt(Tail(a))

Limb(a, i) == IF i <= Len(a) THEN a[i] ELSE 0

Rest(a) == IF a = <<>> THEN <<>> ELSE Tail(a)

RECURSIVE BigAddCarry(_, _, _)
BigAddCarry(a, b, carry) ==
    IF a = <<>> /\ b = <<>>
    THEN IF carry = 0 THEN <<>> ELSE <<carry>>
    ELSE LET s == Limb(a, 1) + Limb(b, 1) + carry
         IN <<s % LimbBase>> \o BigAddCarry(Rest(a), Rest(b), s \div LimbBase)

BigAdd(a, b) == BigAddCarry(a, b, 0)

\* a - b for a >= b
RECURSIVE BigSubBorrow(_, _, _)
BigSubBorrow(a, b, borrow) ==
    IF a = <<>> THEN <<>>
    ELSE LET d == a[1] - Limb(b, 1) - borrow
         IN IF d < 0
            THEN <<d + LimbBase>> \o BigSubBorrow(Tail(a), Rest(b), 1)
            ELSE <<d>> \o BigSubBorrow(Tail(a), Rest(b), 0)

BigSub(a, b) == BigTrim(BigSubBorrow(a, b, 0))

\* -1, 0 or 1 as a is below, equal to or above b
RECURSIVE BigCmpFrom(_, _, _)
BigCmpFrom(a, b, i) ==
    IF i = 0 THEN 0
    ELSE IF a[i] < b[i] THEN -1
    ELSE IF a[i] > b[i] THEN 1
    ELSE BigCmpFrom(a, b, i - 1)

BigCmp(a, b) ==
    IF Len(a) < Len(b) THEN -1
    ELSE IF Len(a) > Len(b) THEN 1
    ELSE BigCmpFrom(a, b, Len(a))

\* a * k for 0 <= k < LimbBase
RECURSIVE BigMulCarry(_, _, _)
BigMulCarry(a, k, carry) ==
    IF a = <<>>
    THEN IF carry = 0 THEN <<>> ELSE <<carry>>
    ELSE LET p == a[1] * k + carry
         IN <<p % LimbBase>> \o BigMulCarry(Tail(a), k, p \div LimbBase)

BigMulSmall(a, k) == BigTrim(BigMulCarry(a, k, 0))

\* a * LimbBase^n
ShiftLimbs(a, n) == IF a = <<>> THEN <<>> ELSE [i \in 1..n |-> 0] \o a

RECURSIVE BigMul(_, _)
BigMul(a, b) ==
    IF b = <<>> THEN <<>>
    ELSE BigAdd(BigMulSmall(a, b[1]), ShiftLimbs(BigMul(a, Tail(b)), 1))

\* a * 2^n
BigShl(a, n) ==
    ShiftLimbs(BigMulSmall(a, Pow2(n % LimbBits)), n \div LimbBits)

\* floor(a / 2^n)
BigShr(a, n) ==
    LET drop == n \div LimbBits
        p == Pow2(n % LimbBits)
        kept == IF drop >= Len(a) THEN <<>> ELSE SubSeq(a, drop + 1, Len(a))
    IN BigTrim([i \in 1..Len(kept) |->
                   (kept[i] \div p) + (Limb(kept, i + 1) % p) * (LimbBase \div p)])

RECURSIVE LimbLen(_)
LimbLen(x) == IF x = 0 THEN 0 ELSE 1 + LimbLen(x \div 2)

\* number of significant bits
BitLen(a) ==
    IF a = <<>> THEN 0 ELSE LimbBits * (Len(a) - 1) + LimbLen(a[Len(a)])

\* the largest digit q with b * q <= r, searched downwards from an estimate
RECURSIVE QuotientDigit(_, _, _)
QuotientDigit(r, b, q) ==
    IF BigCmp(BigMulSmall(b, q), r) = 1 THEN QuotientDigit(r, b, q - 1) ELSE q

\* long division of a by b, limb by limb from the top; the top limb of b has
\* its highest bit set, which keeps the digit estimate within 2 of the digit
RECURSIVE BigDivFrom(_, _, _, _, _)
BigDivFrom(a, b, i, q, r) ==
    IF i = 0 THEN [q |-> BigTrim(q), r |-> r]
    ELSE LET r1 == BigTrim(<<a[i]>> \o r)
             n == Len(b)
             estimate == (Limb(r1, n + 1) * LimbBase + Limb(r1, n)) \div b[n]
             digit == QuotientDigit(r1, b, Min(estimate, LimbBase - 1))
         IN BigDivFrom(a, b, i - 1, <<digit>> \o q,
                       BigSub(r1, BigMulSmall(b, digit)))

BigDivMod(a, b) == BigDivFrom(a, b, Len(a), <<>>, <<>>)

-----------------------------------------------------------------------------
(* JavaScript numbers: IEEE 754 doubles.  A finite non-negative double is   *)
(* m * 2^e with a 53-bit m (or m = 0); the other values a numeric field of  *)
(* this program takes are NaN and undefined.  Exponents stay far inside     *)
(* the double range for the magnitudes computed here (scores, weights).     *)

MantissaBits == 53

NaN == [kind |-> "NaN", m |-> <<>>, e |-> 0]

Undefined == [kind |-> "undefined", m |-> <<>>, e |-> 0]

Zero == [kind |-> "number", m |-> <<>>, e |-> 0]

IsNumber(x) == x.kind = "number"

\* the double nearest to m * 2^e (ties to even); sticky tells that the exact
\* value lies strictly above m * 2^e (by less than 2^e)
RoundToDouble(m, e, sticky) ==
    LET len == BitLen(m)
    IN IF len = 0 THEN Zero
       ELSE IF len <= MantissaBits
       THEN [kind |-> "number", m |-> BigShl(m, MantissaBits - len),
             e |-> e - (MantissaBits - len)]
       ELSE LET d == len - MantissaBits
                q == BigShr(m, d)
                rem == BigSub(m, BigShl(q, d))
                half == BigShl(<<1>>, d - 1)
                c == BigCmp(rem, half)
                up == c = 1 \/ (c = 0 /\ (sticky \/ q[1] % 2 = 1))
                q1 == IF up THEN BigAdd(q, <<1>>) ELSE q
            IN IF BitLen(q1) > MantissaBits
               THEN [kind |-> "number", m |-> BigShr(q1, 1), e |-> e + d + 1]
               ELSE [kind |-> "number", m |-> q1, e |-> e + d]

\* the double of an integer literal
FromInt(n) == RoundToDouble(BigFromInt(n), 0, FALSE)

\* a + b
FAdd(a, b) ==
    IF ~IsNumber(a) \/ ~IsNumber(b) THEN NaN
    ELSE IF a.m = <<>> THEN b
    ELSE IF b.m = <<>> THEN a
    ELSE LET e == Min(a.e, b.e)
         IN RoundToDouble(BigAdd(BigShl(a.m, a.e - e), BigShl(b.m, b.e - e)),
                          e, FALSE)

\* a * b
FMul(a, b) ==
    IF ~IsNumber(a) \/ ~IsNumber(b) THEN NaN
    ELSE RoundToDouble(BigMul(a.m, b.m), a.e + b.e, FALSE)

\* a / b for b > 0
FDiv(a, b) ==
    IF ~IsNumber(a) \/ ~IsNumber(b) \/ b.m = <<>> THEN NaN
    ELSE IF a.m = <<>> THEN Zero
    ELSE LET d == BigDivMod(BigShl(a.m, 63), BigShl(b.m, 7))
         IN RoundToDouble(d.q, a.e - b.e - 56, d.r # <<>>)

\* -1, 0 or 1 as a is below, equal to or above b (both numbers)
FCmp(a, b) ==
    LET e == Min(a.e, b.e)
    IN BigCmp(BigShl(a.m, a.e - e), BigShl(b.m, b.e - e))

\* Math.max(0, a - b)
MaxZeroMinus(a, b) ==
    IF ~IsNumber(a) \/ ~IsNumber(b) THEN NaN
    ELSE IF FCmp(a, b) <= 0 THEN Zero
    ELSE LET e == Min(a.e, b.e)
         IN RoundToDouble(BigSub(BigShl(a.m, a.e - e), BigShl(b.m, b.e - e)),
                          e, FALSE)

\* Math.round(x) as an integer: floor(x + 1/2), computed exactly
MathRound(x) ==
    IF x.e >= 0 THEN BigToInt(BigShl(x.m, x.e))
    ELSE BigToInt(BigShr(BigAdd(x.m, BigShl(<<1>>, -x.e - 1)), -x.e))

\* the double written as the decimal literal n/100
Hundredths(n) == FDiv(FromInt(n), FromInt(100))

\* a value used in a condition: undefined, NaN and 0 are falsy
Truthy(x) == IsNumber(x) /\ x.m # <<>>

\* x >= n for an integer literal n; false for NaN and undefined
AtLeast(x, n) == IsNumber(x) /\ FCmp(x, FromInt(n)) >= 0

-----------------------------------------------------------------------------
(* Input universes *)

NoResult == [agentName |-> "none", comments |-> <<>>, score |-> Undefined]

NoAnalysis == [reviewResult |-> NoResult, riskLevel |-> "none"]

NoPayload == [entry |-> "none", action |-> "none", useEnhancedReview |-> FALSE]

NoContext == [agent |-> "none", files |-> <<>>, parsed |-> <<>>]

\* reviews are the events of the reviews created, inline the inline comments
\* of the enhanced review created, comments counts the general comments
NoGithub == [reviews |-> <<>>, comments |-> 0, failed |-> {}, inline |-> <<>>]

NoFix == [comment |-> <<>>, fileContent |-> "", response |-> "", fixes |-> <<>>]

NoSignature == [prefix |-> "", key |-> "", text |-> "", length |-> 0]

NoRequest ==
    [eventType |-> "none", signature |-> NoSignature, rawBody |-> "", payload |-> NoPayload,
     status |-> 0]

\* all sequences over S of length 0..n
BoundedSeq(S, n) == UNION {[1..k -> S] : k \in 0..n}

\* messages of the two-agent scenario, both shorter than 50 characters
MsgConfig == "Hardcoded API key detected in config"

MsgEnv == "Hardcoded API key detected - move to env"

\* two messages longer than 50 characters that agree on their first 50
Prefix50 == "01234567890123456789012345678901234567890123456789"

MsgLongA == Prefix50 \o "A"

MsgLongB == Prefix50 \o "B"

\* file names, listed in ascending localeCompare order
FileNames == <<"a.ts", "b.ts">>

Severities == {"high", "medium"}

Categories == {"security", "quality"}

Findings ==
    [file : {FileNames[i] : i \in 1..Len(FileNames)},
     line : {5},
     message : {MsgConfig, MsgEnv, MsgLongA, MsgLongB},
     severity : Severities,
     category : Categories]

RiskLevels == {"low", "medium", "high"}

Scores == {Undefined, FromInt(0), FromInt(85), FromInt(97), FromInt(100)}

AgentNames == {"Security Agent", "Code Quality Agent", "Performance Agent",
               "Testing Agent", "Summary Agent", "PR Review Agent"}

-----------------------------------------------------------------------------
(* SummaryAgentService: deduplicateComments *)

\* String(line) inside the template literal of the key
LineStr(line) == IF line = AbsentNum THEN "undefined" ELSE ToString(line)

\* message.substring(0, 50)
KeyPrefixLen == 50

Substring0(s, n) == SubSeq(s, 1, Min(n, Len(s)))

\* a slip that leaves the message out of the key
CommentKey_noMessage(comment) ==
    comment.file \o ":" \o LineStr(comment.line)

CommentKey(comment) ==
    comment.file \o ":" \o LineStr(comment.line) \o ":"
        \o Substring0(comment.message, KeyPrefixLen)

severityOrder(s) == CASE s = "high" -> 3 [] s = "medium" -> 2 [] s = "low" -> 1

\* position of key in the Map `seen` (kept in insertion order), 0 if absent
SeenIndex(seen, key) ==
    IF \E i \in 1..Len(seen) : seen[i].key = key
    THEN CHOOSE i \in 1..Len(seen) : seen[i].key = key
    ELSE 0

\* a slip that lets a later finding of equal severity replace the kept one
DedupStep_lastWins(seen, comment) ==
    LET key == CommentKey(comment)
        i == SeenIndex(seen, key)
    IN IF i = 0
       THEN Append(seen, [key |-> key, value |-> comment])
       ELSE IF severityOrder(comment.severity) >= severityOrder(seen[i].value.severity)
            THEN [seen EXCEPT ![i] = [key |-> key, value |-> comment]]
            ELSE seen

\* body of the forEach of deduplicateComments; Map.set on an existing key
\* keeps the key at its original position
DedupStep(seen, comment) ==
    LET key == CommentKey(comment)
        i == SeenIndex(seen, key)
    IN IF i = 0
       THEN Append(seen, [key |-> key, value |-> comment])
       ELSE IF severityOrder(comment.severity) > severityOrder(seen[i].value.severity)
            THEN [seen EXCEPT ![i] = [key |-> key, value |-> comment]]
            ELSE seen

RECURSIVE DedupFold(_, _)
DedupFold(seen, comments) ==
    IF comments = <<>> THEN seen
    ELSE DedupFold(DedupStep(seen, Head(comments)), Tail(comments))

\* a plausible slip: the result is built newest-first
deduplicateComments_newestFirst(comments) ==
    LET seen == DedupFold(<<>>, comments)
    IN [i \in 1..Len(seen) |-> seen[Len(seen) + 1 - i].value]

deduplicateComments(comments) ==
    LET seen == DedupFold(<<>>, comments)
    IN [i \in 1..Len(seen) |-> seen[i].value]

RECURSIVE FlattenComments(_)
FlattenComments(results) ==
    IF results = <<>> THEN <<>>
    ELSE LET r == Head(results)
         IN [i \in 1..Len(r.comments) |->
                [file |-> r.comments[i].file, line |-> r.comments[i].line,
                 message |-> r.comments[i].message,
                 severity |-> r.comments[i].severity,
                 category |-> r.comments[i].category,
                 source |-> r.agentName]]
            \o FlattenComments(Tail(results))

aggregateComments(results) == deduplicateComments(FlattenComments(results))

-----------------------------------------------------------------------------
(* SummaryAgentService: prioritizeComments *)

\* categoryOrder[c] || 1
categoryOrder(c) ==
    CASE c = "security" -> 10
      [] c = "authentication" -> 9
      [] c = "injection" -> 9
      [] c = "exposure" -> 8
      [] c = "algorithm" -> 7
      [] c = "memory" -> 6
      [] c = "database" -> 6
      [] c = "structure" -> 5
      [] c = "complexity" -> 5
      [] c = "network" -> 4
      [] c = "naming" -> 3
      [] c = "documentation" -> 2
      [] c = "performance" -> 4
      [] OTHER -> 1

\* a.localeCompare(b) on the file names of the model
FileRank(f) == CHOOSE i \in 1..Len(FileNames) : FileNames[i] = f

localeCompare(a, b) == FileRank(a) - FileRank(b)

\* a slip that forgets the category key
compareComments_noCategory(a, b) ==
    LET severityDiff == severityOrder(b.severity) - severityOrder(a.severity)
    IN IF severityDiff # 0 THEN severityDiff
       ELSE localeCompare(a.file, b.file)

\* the comparator handed to Array.prototype.sort: negative when a sorts first
compareComments(a, b) ==
    LET severityDiff == severityOrder(b.severity) - severityOrder(a.severity)
        categoryDiff == categoryOrder(b.category) - categoryOrder(a.category)
    IN IF severityDiff # 0 THEN severityDiff
       ELSE IF categoryDiff # 0 THEN categoryDiff
       ELSE localeCompare(a.file, b.file)

\* Array.prototype.sort is stable: c goes behind every element that does not
\* sort strictly after it
RECURSIVE SortedInsert(_, _)
SortedInsert(sorted, c) ==
    IF sorted = <<>> THEN <<c>>
    ELSE IF compareComments(Head(sorted), c) <= 0
         THEN <<Head(sorted)>> \o SortedInsert(Tail(sorted), c)
         ELSE <<c>> \o sorted

RECURSIVE SortFold(_, _)
SortFold(sorted, comments) ==
    IF comments = <<>> THEN sorted
    ELSE SortFold(SortedInsert(sorted, Head(comments)), Tail(comments))

prioritizeComments(comments) == SortFold(<<>>, comments)

-----------------------------------------------------------------------------
(* SummaryAgentService: calculateOverallScore *)

\* the agentWeights table of calculateOverallScore
agentWeights ==
    [name \in {"Security Agent", "Code Quality Agent", "Performance Agent",
               "Testing Agent", "Summary Agent"} |->
        CASE name = "Security Agent" -> Hundredths(30)
          [] name = "Code Quality Agent" -> Hundredths(25)
          [] name = "Performance Agent" -> Hundredths(20)
          [] name = "Testing Agent" -> Hundredths(15)
          [] name = "Summary Agent" -> Hundredths(10)]

DefaultAgentWeight == Hundredths(10)

\* agentWeights[result.agentName] || 0.1
WeightOf(name) ==
    IF name \in DOMAIN agentWeights THEN agentWeights[name] ELSE DefaultAgentWeight

\* result.score || 0
ScoreOrZero(score) == IF Truthy(score) THEN score ELSE Zero

\* weightedSum after the first i results: weightedSum += (score || 0) * weight
RECURSIVE WeightedSum(_, _)
WeightedSum(results, i) ==
    IF i = 0 THEN Zero
    ELSE FAdd(WeightedSum(results, i - 1),
              FMul(ScoreOrZero(results[i].score), WeightOf(results[i].agentName)))

\* totalWeight after the first i results: totalWeight += weight
RECURSIVE TotalWeight(_, _)
TotalWeight(results, i) ==
    IF i = 0 THEN Zero
    ELSE FAdd(TotalWeight(results, i - 1), WeightOf(results[i].agentName))

calculateOverallScore(results) ==
    IF Len(results) = 0 THEN FromInt(100)
    ELSE LET weightedSum == WeightedSum(results, Len(results))
             totalWeight == TotalWeight(results, Len(results))
         IN IF FCmp(totalWeight, Zero) = 1
            THEN FromInt(MathRound(FDiv(weightedSum, totalWeight)))
            ELSE Zero

-----------------------------------------------------------------------------
(* BaseAgentService: validateResult *)

\* !s for a string field: undefined or empty
Falsy(s) == s = AbsentStr \/ s = ""

ValidateComment(c) ==
    IF Falsy(c.severity) THEN [c EXCEPT !.severity = "medium"] ELSE c

validateResult(result) ==
    LET kept == SelectSeq(result.comments,
                          LAMBDA c : ~(Falsy(c.message) \/ Falsy(c.file)))
    IN [result EXCEPT !.comments = [i \in 1..Len(kept) |-> ValidateComment(kept[i])]]

-----------------------------------------------------------------------------
(* SummaryAgentService: summarizeResults *)

summarizeResults(results) ==
    IF Len(results) = 0
    THEN [agentName |-> "Summary Agent", comments |-> <<>>, score |-> FromInt(100)]
    ELSE validateResult(
            [agentName |-> "Summary Agent",
             comments |-> prioritizeComments(aggregateComments(results)),
             score |-> calculateOverallScore(results)])

-----------------------------------------------------------------------------
(* EnhancedPRAgentService: determineReviewEvent *)

ApproveThreshold == 85

\* comments.filter((c) => c.severity === 'high').length
CountSeverity(comments, sev) ==
    Cardinality({i \in 1..Len(comments) : comments[i].severity = sev})

\* comments.filter((c) => c.category === 'security').length
CountCategory(comments, cat) ==
    Cardinality({i \in 1..Len(comments) : comments[i].category = cat})

\* an off-by-one slip: the threshold itself does not approve
determineReviewEvent_strictThreshold(an) ==
    LET criticalIssues == CountSeverity(an.reviewResult.comments, "high")
        securityIssues == CountCategory(an.reviewResult.comments, "security")
        score == an.reviewResult.score
    IN IF criticalIssues > 0 \/ securityIssues > 0 \/ an.riskLevel = "high"
       THEN "REQUEST_CHANGES"
       ELSE IF Truthy(score) /\ FCmp(score, FromInt(ApproveThreshold)) = 1
            THEN "APPROVE"
            ELSE "COMMENT"

\* a slip that looks at the score before the blocking conditions
determineReviewEvent_scoreFirst(an) ==
    LET criticalIssues == CountSeverity(an.reviewResult.comments, "high")
        securityIssues == CountCategory(an.reviewResult.comments, "security")
        score == an.reviewResult.score
    IN IF Truthy(score) /\ AtLeast(score, ApproveThreshold)
       THEN "APPROVE"
       ELSE IF criticalIssues > 0 \/ securityIssues > 0 \/ an.riskLevel = "high"
            THEN "REQUEST_CHANGES"
            ELSE "COMMENT"

determineReviewEvent(an) ==
    LET criticalIssues == CountSeverity(an.reviewResult.comments, "high")
        securityIssues == CountCategory(an.reviewResult.comments, "security")
        score == an.reviewResult.score
    IN IF criticalIssues > 0 \/ securityIssues > 0 \/ an.riskLevel = "high"
       THEN "REQUEST_CHANGES"
       ELSE IF Truthy(score) /\ AtLeast(score, ApproveThreshold)
            THEN "APPROVE"
            ELSE "COMMENT"

-----------------------------------------------------------------------------
(* The aggregation pipeline of one PR analysis *)

\* the findings of one analysis: the security agent reports those of category
\* security, the quality agent the others; both agents score themselves 100
AgentReports(found) ==
    << [agentName |-> "Security Agent", score |-> FromInt(100),
        comments |-> SelectSeq(found, LAMBDA c : c.category = "security")],
       [agentName |-> "Code Quality Agent", score |-> FromInt(100),
        comments |-> SelectSeq(found, LAMBDA c : c.category # "security")] >>

IdleEngine ==
    /\ agentResults = <<>>
    /\ aggregatedComments = <<>>
    /\ reviewResult = NoResult
    /\ analysis = NoAnalysis
    /\ event = "none"

NoBranch ==
    [content |-> "", updates |-> 0, autoApplyFixes |-> FALSE,
     confidenceThreshold |-> AbsentNum]

NoReview == [response |-> "", result |-> [t |-> "null", s |-> "null", keys |-> <<>>, items |-> <<>>]]

\* a ReviewRule: the fields the queries and the updates read
Rule(id, category, enabled, fileTypes) ==
    [id |-> id, category |-> category, enabled |-> enabled, fileTypes |-> fileTypes]

AllFileTypes == {"js", "ts", "jsx", "tsx"}

\* ReviewRulesConfig.rules as the class is loaded
InitialRules ==
    << Rule("SEC-001", "security", TRUE, AllFileTypes),
       Rule("SEC-002", "security", TRUE, {"js", "ts"}),
       Rule("SEC-003", "security", TRUE, {"jsx", "tsx"}),
       Rule("QUAL-001", "quality", TRUE, AllFileTypes),
       Rule("QUAL-002", "quality", TRUE, AllFileTypes),
       Rule("QUAL-003", "quality", TRUE, AllFileTypes),
       Rule("PERF-001", "performance", TRUE, AllFileTypes),
       Rule("PERF-002", "performance", TRUE, {"js", "ts"}),
       Rule("STYLE-001", "style", TRUE, AllFileTypes),
       Rule("STYLE-002", "style", TRUE, AllFileTypes),
       Rule("TEST-001", "testing", TRUE, {"js", "ts"}),
       Rule("TEST-002", "testing", TRUE, {"js", "ts"}) >>

\* disabled records the ids for which disableRule returned true and
\* enableRule has not been called since
InitialRegistry == [rules |-> InitialRules, disabled |-> {}]

\* no HTTP request in hand, no standard review under way, the rules as loaded
IdleMore ==
    /\ request = NoRequest
    /\ review = NoReview
    /\ registry = InitialRegistry

\* no enhanced analysis in flight; the agent holds the persona of its
\* constructor, getPersonaFromConfig()
IdleSide ==
    /\ currentPersona = "senior"
    /\ requests = <<>>
    /\ parser = [response |-> "", comments |-> <<>>]
    /\ branch = NoBranch
    /\ IdleMore

IdleHost ==
    /\ payload = NoPayload
    /\ context = NoContext
    /\ github = NoGithub
    /\ overallScore = AbsentNum
    /\ autoFix = NoFix
    /\ IdleSide

Init ==
    /\ pc = "collected"
    /\ \E found \in BoundedSeq(Findings, MaxFindings) :
          agentResults = AgentReports(found)
    /\ aggregatedComments = <<>>
    /\ reviewResult = NoResult
    /\ analysis = NoAnalysis
    /\ event = "none"
    /\ IdleHost

\* summarizeResults returns the aggregated result
SummarizeResults ==
    /\ pc = "collected"
    /\ aggregatedComments' =
          IF Len(agentResults) = 0 THEN <<>> ELSE aggregateComments(agentResults)
    /\ reviewResult' = summarizeResults(agentResults)
    /\ pc' = "summarized"
    /\ UNCHANGED <<agentResults, analysis, event>>
    /\ UNCHANGED hostVars

\* summarizeResults rethrows when the LLM call of generateComprehensiveSummary
\* throws; with no agent results it returns before calling the LLM
SummarizeThrows ==
    /\ pc = "collected"
    /\ Len(agentResults) > 0
    /\ pc' = "failed"
    /\ UNCHANGED <<engineVars, hostVars>>

\* the analysis record is built around the result under review and the
\* independently computed risk level, and determineReviewEvent resolves it
ResolveVerdict(risk) ==
    /\ pc \in {"summarized", "analysed"}
    /\ analysis' = [reviewResult |-> reviewResult, riskLevel |-> risk]
    /\ event' = determineReviewEvent(analysis')
    /\ pc' = "resolved"
    /\ UNCHANGED <<agentResults, aggregatedComments, reviewResult>>
    /\ UNCHANGED hostVars

Next ==
    \/ SummarizeResults
    \/ SummarizeThrows
    \/ \E risk \in RiskLevels : ResolveVerdict(risk)

Spec == Init /\ [][Next]_vars

-----------------------------------------------------------------------------
(* Verdict resolution on the result of any single analysis *)

ReviewResults ==
    [agentName : {"PR Review Agent"},
     comments : BoundedSeq(Findings, MaxFindings),
     score : Scores]

InitVerdict ==
    /\ pc = "analysed"
    /\ agentResults = <<>>
    /\ aggregatedComments = <<>>
    /\ reviewResult \in ReviewResults
    /\ analysis = NoAnalysis
    /\ event = "none"
    /\ IdleHost

NextVerdict == \E risk \in RiskLevels : ResolveVerdict(risk)

SpecVerdict == InitVerdict /\ [][NextVerdict]_vars

-----------------------------------------------------------------------------
(* Score aggregation over any agents *)

ScoredResults == [agentName : AgentNames, score : Scores, comments : {<<>>}]

InitScore ==
    /\ pc = "collected"
    /\ agentResults \in BoundedSeq(ScoredResults, MaxAgents)
    /\ aggregatedComments = <<>>
    /\ reviewResult = NoResult
    /\ analysis = NoAnalysis
    /\ event = "none"
    /\ IdleHost

SpecScore == InitScore /\ [][Next]_vars

-----------------------------------------------------------------------------
(* Strings *)

CharAt(s, i) == SubSeq(s, i, i)

\* s.includes(sub) for a non-empty sub
Includes(s, sub) ==
    \E i \in 1..(Len(s) - Len(sub) + 1) : SubSeq(s, i, i + Len(sub) - 1) = sub

UpperCase == "ABCDEFGHIJKLMNOPQRSTUVWXYZ"

LowerCase == "abcdefghijklmnopqrstuvwxyz"

LowerChar(c) ==
    IF \E i \in 1..Len(UpperCase) : CharAt(UpperCase, i) = c
    THEN CharAt(LowerCase, CHOOSE i \in 1..Len(UpperCase) : CharAt(UpperCase, i) = c)
    ELSE c

RECURSIVE toLowerCase(_)
toLowerCase(s) ==
    IF Len(s) = 0 THEN ""
    ELSE LowerChar(CharAt(s, 1)) \o toLowerCase(SubSeq(s, 2, Len(s)))

\* the last position of character c among the first i of s, 0 when absent
RECURSIVE LastIndexOf(_, _, _)
LastIndexOf(s, c, i) ==
    IF i = 0 THEN 0
    ELSE IF CharAt(s, i) = c THEN i ELSE LastIndexOf(s, c, i - 1)

-----------------------------------------------------------------------------
(* BaseAgentService: getFileExtension, shouldAnalyzeFile *)

\* filename.split('.'): the last part in lower case, '' without a dot
getFileExtension(filename) ==
    LET dot == LastIndexOf(filename, ".", Len(filename))
    IN IF dot = 0 THEN ""
       ELSE toLowerCase(SubSeq(filename, dot + 1, Len(filename)))

shouldAnalyzeFile(filename, supportedFileTypes) ==
    IF Len(supportedFileTypes) = 0 THEN TRUE
    ELSE \E i \in 1..Len(supportedFileTypes) :
            supportedFileTypes[i] = getFileExtension(filename)

\* context.files.filter(shouldAnalyzeFile(file.filename) && status !== 'removed')
relevantFiles(files, supportedFileTypes) ==
    SelectSeq(files, LAMBDA file :
        shouldAnalyzeFile(file.filename, supportedFileTypes)
        /\ file.status # "removed")

-----------------------------------------------------------------------------
(* PRReviewAgentService: categorizeComment, calculateOverallScore, analyze *)

PRReviewFileTypes == <<"js", "ts", "jsx", "tsx", "json", "md">>

\* the list of analysisResults a comment is pushed to
categorizeComment(comment) ==
    LET category == toLowerCase(comment.category)
    IN IF Includes(category, "security") \/ Includes(category, "vulnerability")
       THEN "security"
       ELSE IF \/ Includes(category, "style")
               \/ Includes(category, "format")
               \/ Includes(category, "lint")
       THEN "style"
       ELSE IF Includes(category, "performance") \/ Includes(category, "optimization")
       THEN "performance"
       ELSE IF Includes(category, "test") \/ Includes(category, "coverage")
       THEN "testing"
       ELSE "quality"

\* the keys of analysisResults, in the order Object.entries visits them
analysisResultKeys == <<"quality", "security", "style", "performance", "testing">>

\* the weights table of calculateOverallScore
categoryWeights ==
    [category \in {"security", "quality", "performance", "style", "testing"} |->
        CASE category = "security" -> Hundredths(30)
          [] category = "quality" -> Hundredths(25)
          [] category = "performance" -> Hundredths(20)
          [] category = "style" -> Hundredths(15)
          [] category = "testing" -> Hundredths(10)]

reviewSeverityWeights ==
    [severity \in {"high", "medium", "low"} |->
        CASE severity = "high" -> FromInt(25)
          [] severity = "medium" -> FromInt(10)
          [] severity = "low" -> FromInt(3)]

\* table[key]: undefined for a key the table lacks
Lookup(table, key) == IF key \in DOMAIN table THEN table[key] ELSE Undefined

\* comments.reduce((sum, comment) => sum + severityWeights[comment.severity] *
\* categoryWeight, sum) over those of the comments lo..hi pushed to the list,
\* left to right; the range is halved so that a long list is summed without
\* deep recursion
RECURSIVE CategoryDeduction(_, _, _, _, _)
CategoryDeduction(comments, category, lo, hi, sum) ==
    IF lo > hi THEN sum
    ELSE IF lo = hi
    THEN IF categorizeComment(comments[lo]) = category
         THEN FAdd(sum, FMul(Lookup(reviewSeverityWeights, comments[lo].severity),
                             categoryWeights[category]))
         ELSE sum
    ELSE LET mid == (lo + hi) \div 2
             left == CategoryDeduction(comments, category, lo, mid, sum)
         IN IF IsNumber(left)
            THEN CategoryDeduction(comments, category, mid + 1, hi, left)
            ELSE NaN

\* totalDeduction after the first k lists: totalDeduction += categoryDeduction
RECURSIVE TotalDeduction(_, _)
TotalDeduction(comments, k) ==
    IF k = 0 THEN Zero
    ELSE LET totalDeduction == TotalDeduction(comments, k - 1)
             categoryDeduction ==
                 CategoryDeduction(comments, analysisResultKeys[k], 1, Len(comments), Zero)
         IN IF IsNumber(totalDeduction) /\ IsNumber(categoryDeduction)
            THEN FAdd(totalDeduction, categoryDeduction)
            ELSE NaN

\* Math.max(0, 100 - totalDeduction)
reviewOverallScore(comments) ==
    MaxZeroMinus(FromInt(100), TotalDeduction(comments, Len(analysisResultKeys)))

\* comment.category.toLowerCase() throws on a comment without category
reviewAnalyzeThrows(ctx) ==
    /\ Len(relevantFiles(ctx.files, PRReviewFileTypes)) > 0
    /\ \E i \in 1..Len(ctx.parsed) : ctx.parsed[i].category = AbsentStr

\* a slip that scores a PR without relevant files 0
reviewAnalyze_zeroScore(ctx) ==
    IF Len(relevantFiles(ctx.files, PRReviewFileTypes)) = 0
    THEN [agentName |-> "PR Review Agent", comments |-> <<>>, score |-> Zero]
    ELSE validateResult([agentName |-> "PR Review Agent",
                         comments |-> ctx.parsed,
                         score |-> reviewOverallScore(ctx.parsed)])

\* the score is computed from the comments as parsed; validateResult then
\* drops the comments without message or file
reviewAnalyze(ctx) ==
    IF Len(relevantFiles(ctx.files, PRReviewFileTypes)) = 0
    THEN [agentName |-> "PR Review Agent", comments |-> <<>>, score |-> FromInt(100)]
    ELSE validateResult([agentName |-> "PR Review Agent",
                         comments |-> ctx.parsed,
                         score |-> reviewOverallScore(ctx.parsed)])

-----------------------------------------------------------------------------
(* SecurityAgentService: calculateSecurityScore, analyze *)

SecurityFileTypes ==
    <<"js", "ts", "jsx", "tsx", "py", "java", "cs", "php", "go", "rb", "rs">>

securitySeverityWeights ==
    [severity \in {"high", "medium", "low"} |->
        CASE severity = "high" -> FromInt(30)
          [] severity = "medium" -> FromInt(10)
          [] severity = "low" -> FromInt(3)]

\* comments.reduce((sum, comment) => sum + severityWeights[comment.severity], 0)
RECURSIVE SecurityDeduction(_, _)
SecurityDeduction(comments, i) ==
    IF i = 0 THEN Zero
    ELSE FAdd(SecurityDeduction(comments, i - 1),
              Lookup(securitySeverityWeights, comments[i].severity))

calculateSecurityScore(comments) ==
    IF Len(comments) = 0 THEN FromInt(100)
    ELSE MaxZeroMinus(FromInt(100), SecurityDeduction(comments, Len(comments)))

securityAnalyze(ctx) ==
    IF Len(relevantFiles(ctx.files, SecurityFileTypes)) = 0
    THEN [agentName |-> "Security Agent", comments |-> <<>>, score |-> FromInt(100)]
    ELSE validateResult([agentName |-> "Security Agent",
                         comments |-> ctx.parsed,
                         score |-> calculateSecurityScore(ctx.parsed)])

-----------------------------------------------------------------------------
(* PerformanceAgentService: calculatePerformanceScore, analyze *)

PerformanceFileTypes ==
    <<"js", "ts", "jsx", "tsx", "py", "java", "cs", "php", "go", "rb", "rs",
      "cpp", "c">>

performanceSeverityWeights ==
    [severity \in {"high", "medium", "low"} |->
        CASE severity = "high" -> FromInt(35)
          [] severity = "medium" -> FromInt(15)
          [] severity = "low" -> FromInt(5)]

\* the categoryWeights table of calculatePerformanceScore
performanceCategoryWeights ==
    [category \in {"algorithm", "memory", "database", "network", "concurrency",
                   "io", "cache", "resource", "data-structure"} |->
        CASE category = "algorithm" -> Hundredths(200)
          [] category = "memory" -> Hundredths(180)
          [] category = "database" -> Hundredths(170)
          [] category = "network" -> Hundredths(150)
          [] category = "concurrency" -> Hundredths(140)
          [] category = "io" -> Hundredths(130)
          [] category = "cache" -> Hundredths(120)
          [] category = "resource" -> Hundredths(110)
          [] category = "data-structure" -> Hundredths(100)]

\* categoryWeights[comment.category] || 1.0
categoryMultiplier(category) ==
    IF category \in DOMAIN performanceCategoryWeights
    THEN performanceCategoryWeights[category]
    ELSE Hundredths(100)

\* comments.reduce((sum, comment) => sum + severityScore * categoryMultiplier, 0)
RECURSIVE PerformanceDeduction(_, _)
PerformanceDeduction(comments, i) ==
    IF i = 0 THEN Zero
    ELSE FAdd(PerformanceDeduction(comments, i - 1),
              FMul(Lookup(performanceSeverityWeights, comments[i].severity),
                   categoryMultiplier(comments[i].category)))

calculatePerformanceScore(comments) ==
    IF Len(comments) = 0 THEN FromInt(100)
    ELSE MaxZeroMinus(FromInt(100), PerformanceDeduction(comments, Len(comments)))

performanceAnalyze(ctx) ==
    IF Len(relevantFiles(ctx.files, PerformanceFileTypes)) = 0
    THEN [agentName |-> "Performance Agent", comments |-> <<>>, score |-> FromInt(100)]
    ELSE validateResult([agentName |-> "Performance Agent",
                         comments |-> ctx.parsed,
                         score |-> calculatePerformanceScore(ctx.parsed)])

-----------------------------------------------------------------------------
(* BaseAgent.analyze, as QualityAgent inherits it *)

\* what the catch of BaseAgent.analyze returns
failureResult(message) ==
    [agentName |-> "QualityAgent",
     comments |-> <<[file |-> "unknown", line |-> AbsentNum,
                     message |-> "Failed to analyze code: " \o message,
                     severity |-> "high", category |-> "quality"]>>,
     score |-> Zero]

\* the completion is handed to parseResponse as the object it is, and
\* QualityAgent.parseResponse matches it as a string: a TypeError
baseAgentAnalyze(llmOk) ==
    IF llmOk THEN failureResult("response.match is not a function")
    ELSE failureResult("Connection error.")

-----------------------------------------------------------------------------
(* One agent analysing one context *)

\* the calls that threw are remembered
Threw(call) == [github EXCEPT !.failed = @ \cup {call}]

\* comments as parseResponse returns them: fields the LLM left out are absent
ParsedComments ==
    [file : {"a.ts"}, line : {5}, message : {MsgConfig, AbsentStr},
     severity : {"high", "medium", AbsentStr},
     category : {"security", "quality", "algorithm", AbsentStr}]

FileLists ==
    { <<>>,
      <<[filename |-> "a.ts", status |-> "modified"]>>,
      <<[filename |-> "README.MD", status |-> "modified"]>>,
      <<[filename |-> "a.ts", status |-> "removed"]>> }

Agents == {"PR Review Agent", "Security Agent", "Performance Agent"}

supportedFileTypes(agent) ==
    CASE agent = "Security Agent" -> SecurityFileTypes
      [] agent = "Performance Agent" -> PerformanceFileTypes
      [] OTHER -> PRReviewFileTypes

\* keys of PersonaConfig.personas
Personas == {"senior", "security", "mentor"}

\* securityWeight, codeQualityWeight, performanceWeight, styleWeight and
\* testingWeight of the personas, by the category list they stand for
personaWeights ==
    [p \in Personas |->
        CASE p = "senior" ->
               [security |-> Hundredths(30), quality |-> Hundredths(30),
                performance |-> Hundredths(20), style |-> Hundredths(10),
                testing |-> Hundredths(10)]
          [] p = "security" ->
               [security |-> Hundredths(50), quality |-> Hundredths(15),
                performance |-> Hundredths(15), style |-> Hundredths(5),
                testing |-> Hundredths(15)]
          [] OTHER ->
               [security |-> Hundredths(20), quality |-> Hundredths(25),
                performance |-> Hundredths(15), style |-> Hundredths(20),
                testing |-> Hundredths(20)]]

\* the LLM is asked once per relevant file; without one nothing is parsed.
\* The agent holds the persona PR_REVIEW_PERSONA names
InitAgent ==
    /\ pc = "context"
    /\ \/ \E agent \in Agents, files \in FileLists :
             \E parsed \in (IF Len(relevantFiles(files, supportedFileTypes(agent))) = 0
                            THEN {<<>>}
                            ELSE BoundedSeq(ParsedComments, MaxFindings)) :
                 context = [agent |-> agent, files |-> files, parsed |-> parsed]
       \/ context = [agent |-> "QualityAgent", files |-> <<>>, parsed |-> <<>>]
    /\ IdleEngine
    /\ payload = NoPayload
    /\ github = NoGithub
    /\ overallScore = AbsentNum
    /\ autoFix = NoFix
    /\ currentPersona \in Personas
    /\ requests = <<>>
    /\ parser = [response |-> "", comments |-> <<>>]
    /\ branch = NoBranch
    /\ IdleMore

\* analyze returns a result
Analyze ==
    /\ pc = "context"
    /\ context.agent \in Agents
    /\ context.agent = "PR Review Agent" => ~reviewAnalyzeThrows(context)
    /\ reviewResult' = CASE context.agent = "Security Agent" -> securityAnalyze(context)
                          [] context.agent = "Performance Agent" ->
                                performanceAnalyze(context)
                          [] OTHER -> reviewAnalyze(context)
    /\ pc' = "analysed"
    /\ UNCHANGED <<agentResults, aggregatedComments, analysis, event, hostVars>>

\* analyze rethrows: an LLM call threw, or categorizeComment did
AnalyzeThrows ==
    /\ pc = "context"
    /\ context.agent \in Agents
    /\ Len(relevantFiles(context.files, supportedFileTypes(context.agent))) > 0
    /\ pc' = "failed"
    /\ \E call \in {"callLLM"} \cup
                    (IF context.agent = "PR Review Agent" /\ reviewAnalyzeThrows(context)
                     THEN {"categorizeComment"} ELSE {}) :
          github' = Threw(call)
    /\ UNCHANGED <<engineVars, payload, context, overallScore, autoFix, sideVars>>

\* BaseAgent.analyze catches whatever is thrown and returns a result
BaseAgentAnalyze(llmOk) ==
    /\ pc = "context"
    /\ context.agent = "QualityAgent"
    /\ reviewResult' = baseAgentAnalyze(llmOk)
    /\ github' = Threw(IF llmOk THEN "parseResponse" ELSE "callLLM")
    /\ pc' = "analysed"
    /\ UNCHANGED <<agentResults, aggregatedComments, analysis, event,
                   payload, context, overallScore, autoFix, sideVars>>

NextAgent ==
    \/ Analyze
    \/ AnalyzeThrows
    \/ \E llmOk \in BOOLEAN : BaseAgentAnalyze(llmOk)

SpecAgent == InitAgent /\ [][NextAgent]_vars

-----------------------------------------------------------------------------
(* AutoFixService *)

IsSpace(c) == c \in {" ", "\n", "\t", "\r"}

RECURSIVE trimStart(_)
trimStart(s) ==
    IF Len(s) > 0 /\ IsSpace(CharAt(s, 1)) THEN trimStart(SubSeq(s, 2, Len(s))) ELSE s

RECURSIVE trimEnd(_)
trimEnd(s) ==
    IF Len(s) > 0 /\ IsSpace(CharAt(s, Len(s)))
    THEN trimEnd(SubSeq(s, 1, Len(s) - 1))
    ELSE s

trim(s) == trimEnd(trimStart(s))

\* s.split(separator) for a separator of one character: the parts between
\* the separators, in order
split(s, separator) ==
    LET at == {i \in 1..Len(s) : CharAt(s, i) = separator}
        nth(k) == IF k = 0 THEN 0
                  ELSE IF k > Cardinality(at) THEN Len(s) + 1
                  ELSE CHOOSE i \in at : Cardinality({j \in at : j < i}) = k - 1
    IN [k \in 1..(Cardinality(at) + 1) |-> SubSeq(s, nth(k - 1) + 1, nth(k) - 1)]

\* parts.join(separator)
RECURSIVE Join(_, _)
Join(parts, separator) ==
    IF Len(parts) = 0 THEN ""
    ELSE IF Len(parts) = 1 THEN parts[1]
    ELSE parts[1] \o separator \o Join(Tail(parts), separator)

AutoFixableCategories == {"style", "quality"}

AutoFixableRules == {"STYLE-001", "STYLE-002", "QUAL-002", "QUAL-003"}

isAutoFixable(comment) ==
    \/ comment.category \in AutoFixableCategories
    \/ (~Falsy(comment.ruleId) /\ comment.ruleId \in AutoFixableRules)

\* row j of the matrix from row j - 1: cell k is at index k + 1, and row
\* holds the cells filled so far
RECURSIVE LevenshteinRow(_, _, _, _, _)
LevenshteinRow(previous, str1, str2, j, row) ==
    IF Len(row) > Len(str1) THEN row
    ELSE LET i == Len(row)
             indicator == IF CharAt(str1, i) = CharAt(str2, j) THEN 0 ELSE 1
         IN LevenshteinRow(previous, str1, str2, j,
                Append(row, Min(Min(row[i] + 1, previous[i + 1] + 1),
                                previous[i] + indicator)))

\* the last row of the matrix, row being row j - 1
RECURSIVE LevenshteinRows(_, _, _, _)
LevenshteinRows(str1, str2, j, row) ==
    IF Len(row) = 0 \/ j > Len(str2) THEN row
    ELSE LevenshteinRows(str1, str2, j + 1,
                         LevenshteinRow(row, str1, str2, j, <<j>>))

levenshteinDistance(str1, str2) ==
    LevenshteinRows(str1, str2, 1, [i \in 1..(Len(str1) + 1) |-> i - 1])[Len(str1) + 1]

calculateSimilarity(str1, str2) ==
    LET longer == IF Len(str1) > Len(str2) THEN str1 ELSE str2
        shorter == IF Len(str1) > Len(str2) THEN str2 ELSE str1
    IN IF Len(longer) = 0 THEN FromInt(1)
       ELSE FDiv(FromInt(Len(longer) - levenshteinDistance(longer, shorter)),
                 FromInt(Len(longer)))

BaseConfidence == 50

SimilarityThreshold == Hundredths(70)

\* a slip that leaves out the deduction for quality findings of high severity
RawConfidence_noPenalty(comment, originalCode, fixedCode) ==
    BaseConfidence
    + (IF comment.category = "style" THEN 30 ELSE 0)
    + (IF comment.ruleId = "STYLE-001" /\ Includes(originalCode, "console.")
       THEN 20 ELSE 0)
    + (IF FCmp(calculateSimilarity(originalCode, fixedCode), SimilarityThreshold) = 1
       THEN 10 ELSE 0)

\* the confidence before it is clamped
RawConfidence(comment, originalCode, fixedCode) ==
    BaseConfidence
    + (IF comment.category = "style" THEN 30 ELSE 0)
    + (IF comment.ruleId = "STYLE-001" /\ Includes(originalCode, "console.")
       THEN 20 ELSE 0)
    - (IF comment.category = "quality" /\ comment.severity = "high" THEN 20 ELSE 0)
    + (IF FCmp(calculateSimilarity(originalCode, fixedCode), SimilarityThreshold) = 1
       THEN 10 ELSE 0)

\* a slip that returns the confidence unclamped
calculateConfidence_unclamped(comment, originalCode, fixedCode) ==
    RawConfidence(comment, originalCode, fixedCode)

calculateConfidence(comment, originalCode, fixedCode) ==
    Min(100, Max(0, RawConfidence(comment, originalCode, fixedCode)))

\* a slip that answers a target line beyond the file with a suggestion of
\* confidence 0
generateFix_zeroConfidence(comment, fileContent, response, llmOk) ==
    LET lines == split(fileContent, "\n")
        targetLine == IF comment.line # AbsentNum /\ comment.line # 0
                      THEN comment.line - 1 ELSE 0
    IN IF targetLine >= Len(lines)
       THEN << [file |-> comment.file, originalCode |-> "", fixedCode |-> "",
                description |-> "Auto-fix for: " \o comment.message,
                confidence |-> 0, ruleId |-> "AUTO-FIX", line |-> comment.line] >>
       ELSE IF targetLine < 0 THEN <<>>
       ELSE LET originalCode == lines[targetLine + 1]
                fixedCode == trim(response)
            IN IF ~llmOk THEN <<>>
               ELSE IF fixedCode = "" \/ fixedCode = originalCode THEN <<>>
               ELSE << [file |-> comment.file,
                        originalCode |-> originalCode,
                        fixedCode |-> IF fixedCode = "REMOVE_LINE" THEN "" ELSE fixedCode,
                        description |-> "Auto-fix for: " \o comment.message,
                        confidence |-> calculateConfidence(comment, originalCode, fixedCode),
                        ruleId |-> IF Falsy(comment.ruleId) THEN "AUTO-FIX"
                                   ELSE comment.ruleId,
                        line |-> IF comment.line # AbsentNum /\ comment.line # 0
                                 THEN comment.line ELSE targetLine + 1] >>

\* null is the empty sequence, a suggestion a sequence of one
generateFix(comment, fileContent, response, llmOk) ==
    LET lines == split(fileContent, "\n")
        targetLine == IF comment.line # AbsentNum /\ comment.line # 0
                      THEN comment.line - 1 ELSE 0
    IN IF targetLine >= Len(lines) THEN <<>>
       \* lines[targetLine] is undefined: the response is empty, or
       \* calculateConfidence throws a TypeError that the catch turns into null
       ELSE IF targetLine < 0 THEN <<>>
       ELSE LET originalCode == lines[targetLine + 1]
                fixedCode == trim(response)
            IN IF ~llmOk THEN <<>>
               ELSE IF fixedCode = "" \/ fixedCode = originalCode THEN <<>>
               ELSE << [file |-> comment.file,
                        originalCode |-> originalCode,
                        fixedCode |-> IF fixedCode = "REMOVE_LINE" THEN "" ELSE fixedCode,
                        description |-> "Auto-fix for: " \o comment.message,
                        confidence |-> calculateConfidence(comment, originalCode, fixedCode),
                        ruleId |-> IF Falsy(comment.ruleId) THEN "AUTO-FIX"
                                   ELSE comment.ruleId,
                        line |-> IF comment.line # AbsentNum /\ comment.line # 0
                                 THEN comment.line ELSE targetLine + 1] >>

FixComments ==
    [file : {"a.ts"}, line : {AbsentNum, -2, 0, 1, 2, 3}, message : {MsgConfig},
     severity : {"high", "medium"}, category : {"style", "quality", "security"},
     ruleId : {"STYLE-001", AbsentStr}]

\* the last has an empty second line
FileContents == {"console.log(x);\nlet x = 1;", "  save(x);", "let x = 1;\n"}

Responses ==
    {"console.warn(x);", "logger.debug(x);", " let x = 2;\n", "REMOVE_LINE", "",
     "console.log(x);", "return;", "  save(x);"}

InitFix ==
    /\ pc = "fixing"
    /\ autoFix \in [comment : {<<c>> : c \in FixComments},
                    fileContent : FileContents,
                    response : Responses,
                    fixes : {<<>>}]
    /\ IdleEngine
    /\ payload = NoPayload
    /\ context = NoContext
    /\ github = NoGithub
    /\ overallScore = AbsentNum
    /\ currentPersona = "senior"
    /\ requests = <<>>
    /\ parser = [response |-> "", comments |-> <<>>]
    /\ branch = [NoBranch EXCEPT !.content = autoFix.fileContent]
    /\ IdleMore

\* generateFix reaches its call of groqService.complete
CallsLLM(comment, fileContent) ==
    /\ isAutoFixable(comment)
    /\ (IF comment.line # AbsentNum /\ comment.line # 0 THEN comment.line - 1 ELSE 0)
          < Len(split(fileContent, "\n"))

\* generateAutoFixes on one comment whose file content is known
GenerateAutoFixes(llmOk) ==
    /\ pc = "fixing"
    /\ autoFix' =
          [autoFix EXCEPT !.fixes =
              IF isAutoFixable(autoFix.comment[1])
              THEN generateFix(autoFix.comment[1], autoFix.fileContent,
                               autoFix.response, llmOk)
              ELSE <<>>]
    /\ github' = IF ~llmOk /\ CallsLLM(autoFix.comment[1], autoFix.fileContent)
                 THEN Threw("complete") ELSE github
    /\ pc' = "fixed"
    /\ UNCHANGED <<engineVars, payload, context, overallScore, sideVars>>

DefaultConfidenceThreshold == 80

\* the threshold a caller puts in the config; AbsentNum when it puts none
ConfidenceThresholds == {AbsentNum, 0, 50, 100}

\* a slip that blanks the line of a fix with empty fixedCode
applyFix_blankLine(lines, fix) ==
    [k \in 1..Max(Len(lines), fix.line) |->
        IF k = fix.line THEN fix.fixedCode
        ELSE IF k <= Len(lines) THEN lines[k] ELSE ""]

\* lines.splice(fix.line - 1, 1) for an empty fixedCode, else
\* lines[fix.line - 1] = fix.fixedCode
applyFix(lines, fix) ==
    IF fix.fixedCode = ""
    THEN IF fix.line <= Len(lines)
         THEN SubSeq(lines, 1, fix.line - 1) \o SubSeq(lines, fix.line + 1, Len(lines))
         ELSE lines
    ELSE [k \in 1..Max(Len(lines), fix.line) |->
             IF k = fix.line THEN fix.fixedCode
             ELSE IF k <= Len(lines) THEN lines[k] ELSE ""]

\* the loop of applyAutoFixes over the first i fixes: every fix that passes
\* the filter rewrites the file as it is then, unless a code-host call throws
RECURSIVE ApplyFixes(_, _, _, _, _)
ApplyFixes(file, fixes, i, confidenceThreshold, hostOk) ==
    IF i = 0 THEN file
    ELSE LET before == ApplyFixes(file, fixes, i - 1, confidenceThreshold, hostOk)
         IN IF fixes[i].confidence >= confidenceThreshold /\ hostOk
            THEN [before EXCEPT
                     !.content = Join(applyFix(split(@, "\n"), fixes[i]), "\n"),
                     !.updates = @ + 1]
            ELSE before

\* step 6 of processFullPRAnalysis: applyAutoFixes, if configured
ApplyAutoFixes(autoApplyFixes, confidenceThreshold, hostOk) ==
    /\ pc = "fixed"
    /\ LET config == [branch EXCEPT !.autoApplyFixes = autoApplyFixes,
                                    !.confidenceThreshold = confidenceThreshold]
           \* config.confidenceThreshold || 80
           threshold == IF confidenceThreshold = AbsentNum \/ confidenceThreshold = 0
                        THEN DefaultConfidenceThreshold
                        ELSE confidenceThreshold
           called == /\ autoApplyFixes
                     /\ \E i \in 1..Len(autoFix.fixes) :
                           autoFix.fixes[i].confidence >= threshold
       IN /\ branch' = IF autoApplyFixes /\ Len(autoFix.fixes) > 0
                       THEN ApplyFixes(config, autoFix.fixes, Len(autoFix.fixes),
                                       threshold, hostOk)
                       ELSE config
          /\ github' = IF called /\ ~hostOk THEN Threw("updateFile") ELSE github
    /\ pc' = "applied"
    /\ UNCHANGED <<engineVars, payload, context, overallScore, autoFix,
                   currentPersona, requests, parser, moreVars>>

NextFix ==
    \/ \E llmOk \in BOOLEAN : GenerateAutoFixes(llmOk)
    \/ \E autoApplyFixes, hostOk \in BOOLEAN,
          confidenceThreshold \in ConfidenceThresholds :
             ApplyAutoFixes(autoApplyFixes, confidenceThreshold, hostOk)

SpecFix == InitFix /\ [][NextFix]_vars

-----------------------------------------------------------------------------
(* Several fixes for one file: generateAutoFixes over all fixable comments, *)
(* then applyAutoFixes                                                       *)

MaxFixes == 2

\* a file of three lines
ApplyFileContent == "console.log(x);\nlet x = 1;\nsave(x);"

\* fixable comments on the lines of the file
ApplyComments ==
    [file : {"a.ts"}, line : {1, 2, 3}, message : {MsgConfig}, severity : {"medium"},
     category : {"style"}, ruleId : {"STYLE-001"}]

\* the prompt asks for REMOVE_LINE or for the fixed line, on several lines
\* separated by newlines when the fix needs them
ApplyResponses == {"REMOVE_LINE", "logger.debug(x);", "const a = 1;\nconst b = 2;"}

InitApply ==
    /\ pc = "fixingAll"
    /\ autoFix \in [comment : [1..MaxFixes -> ApplyComments],
                    fileContent : {ApplyFileContent},
                    response : [1..MaxFixes -> ApplyResponses],
                    fixes : {<<>>}]
    /\ IdleEngine
    /\ payload = NoPayload
    /\ context = NoContext
    /\ github = NoGithub
    /\ overallScore = AbsentNum
    /\ currentPersona = "senior"
    /\ requests = <<>>
    /\ parser = [response |-> "", comments |-> <<>>]
    /\ branch = [NoBranch EXCEPT !.content = autoFix.fileContent]
    /\ IdleMore

\* the loop of generateAutoFixes over the first i comments: every fixable
\* comment gets a fix from the content the file had when it was fetched
RECURSIVE GenerateFixes(_, _, _, _, _)
GenerateFixes(comments, fileContent, responses, llmOk, i) ==
    IF i = 0 THEN <<>>
    ELSE GenerateFixes(comments, fileContent, responses, llmOk, i - 1)
         \o (IF isAutoFixable(comments[i])
             THEN generateFix(comments[i], fileContent, responses[i], llmOk[i])
             ELSE <<>>)

\* generateAutoFixes on the comments of one file
GenerateAutoFixesForFile(llmOk) ==
    /\ pc = "fixingAll"
    /\ autoFix' = [autoFix EXCEPT !.fixes =
                      GenerateFixes(autoFix.comment, autoFix.fileContent,
                                    autoFix.response, llmOk, Len(autoFix.comment))]
    /\ github' = IF \E i \in 1..Len(autoFix.comment) :
                       ~llmOk[i] /\ CallsLLM(autoFix.comment[i], autoFix.fileContent)
                 THEN Threw("complete") ELSE github
    /\ pc' = "fixed"
    /\ UNCHANGED <<engineVars, payload, context, overallScore, sideVars>>

NextApply ==
    \/ \E llmOk \in [1..MaxFixes -> BOOLEAN] : GenerateAutoFixesForFile(llmOk)
    \/ \E autoApplyFixes, hostOk \in BOOLEAN,
          confidenceThreshold \in ConfidenceThresholds :
             ApplyAutoFixes(autoApplyFixes, confidenceThreshold, hostOk)

SpecApply == InitApply /\ [][NextApply]_vars

-----------------------------------------------------------------------------
(* ReviewRulesConfig: the rule registry                                     *)

MaxCustomRules == 2

\* the ids the calls name
RuleIds == {"SEC-001", "CUSTOM-001"}

RuleCategories == {"security", "quality", "performance", "style", "testing"}

\* the rules a caller adds: new ones, and one under an id already taken
CustomRules ==
    {Rule(id, "quality", enabled, fileTypes) :
        id \in RuleIds, enabled \in BOOLEAN, fileTypes \in {{}, {"ts"}}}

\* a Partial<ReviewRule>: the keys it has, and their values
Partial(has, values) == [has |-> has, values |-> values]

RuleUpdates ==
    { Partial({}, Rule("", "", FALSE, {})),
      Partial({"enabled"}, Rule("", "", TRUE, {})),
      Partial({"enabled"}, Rule("", "", FALSE, {})),
      Partial({"category"}, Rule("", "style", FALSE, {})),
      Partial({"id"}, Rule("CUSTOM-001", "", FALSE, {})) }

\* { ...rule, ...updates }
Spread(rule, updates) ==
    [key \in DOMAIN rule |->
        IF key \in updates.has THEN updates.values[key] ELSE rule[key]]

\* rules.findIndex((rule) => rule.id === id), 0 for -1
findIndex(rules, id) ==
    IF \E i \in 1..Len(rules) : rules[i].id = id
    THEN CHOOSE i \in 1..Len(rules) :
            /\ rules[i].id = id
            /\ \A j \in 1..(i - 1) : rules[j].id # id
    ELSE 0

\* updateRule: the rules after the call, and what it returned
updateRule(rules, id, updates) ==
    LET ruleIndex == findIndex(rules, id)
    IN IF ruleIndex = 0
       THEN [rules |-> rules, returned |-> FALSE]
       ELSE [rules |-> [rules EXCEPT ![ruleIndex] = Spread(@, updates)],
             returned |-> TRUE]

getAllRules(rules) == SelectSeq(rules, LAMBDA rule : rule.enabled)

getRulesByCategory(rules, category) ==
    SelectSeq(rules, LAMBDA rule : rule.category = category /\ rule.enabled)

getRulesByFileType(rules, fileType) ==
    SelectSeq(rules, LAMBDA rule :
                 /\ rule.enabled
                 /\ (Cardinality(rule.fileTypes) = 0 \/ fileType \in rule.fileTypes))

InitRules ==
    /\ pc = "rules"
    /\ IdleEngine
    /\ payload = NoPayload
    /\ context = NoContext
    /\ github = NoGithub
    /\ overallScore = AbsentNum
    /\ autoFix = NoFix
    /\ IdleSide

RegistryUnchanged ==
    UNCHANGED <<pc, engineVars, payload, context, github, overallScore, autoFix,
                currentPersona, requests, parser, branch, request, review>>

AddCustomRule(rule) ==
    /\ pc = "rules"
    /\ Len(registry.rules) < Len(InitialRules) + MaxCustomRules
    /\ registry' = [registry EXCEPT !.rules = Append(@, rule)]
    /\ RegistryUnchanged

UpdateRule(id, updates) ==
    /\ pc = "rules"
    /\ registry' = [registry EXCEPT !.rules = updateRule(@, id, updates).rules]
    /\ RegistryUnchanged

DisableRule(id) ==
    /\ pc = "rules"
    /\ LET call == updateRule(registry.rules, id, Partial({"enabled"}, Rule("", "", FALSE, {})))
       IN registry' = [rules |-> call.rules,
                       disabled |-> IF call.returned
                                    THEN registry.disabled \cup {id}
                                    ELSE registry.disabled]
    /\ RegistryUnchanged

EnableRule(id) ==
    /\ pc = "rules"
    /\ LET call == updateRule(registry.rules, id, Partial({"enabled"}, Rule("", "", TRUE, {})))
       IN registry' = [rules |-> call.rules, disabled |-> registry.disabled \ {id}]
    /\ RegistryUnchanged

NextRules ==
    \/ \E rule \in CustomRules : AddCustomRule(rule)
    \/ \E id \in RuleIds, updates \in RuleUpdates : UpdateRule(id, updates)
    \/ \E id \in RuleIds : DisableRule(id)
    \/ \E id \in RuleIds : EnableRule(id)

SpecRules == InitRules /\ [][NextRules]_vars

-----------------------------------------------------------------------------
(* Scores and confidences over any input *)

InitBounds == InitScore \/ InitFix

NextBounds ==
    \/ SummarizeResults
    \/ SummarizeThrows
    \/ \E llmOk \in BOOLEAN : GenerateAutoFixes(llmOk)

SpecBounds == InitBounds /\ [][NextBounds]_vars

-----------------------------------------------------------------------------
(* WebhookService.handlePullRequestEvent and the review controller *)

Verdicts == {"APPROVE", "COMMENT", "REQUEST_CHANGES"}

HandledActions == {"opened", "synchronize"}

Payloads ==
    [entry : {"webhook"}, action : {"opened", "synchronize", "closed"},
     useEnhancedReview : BOOLEAN]
    \cup [entry : {"controller"}, action : {"none"}, useEnhancedReview : {TRUE}]

\* k findings of low severity on the lines 1..k of a.ts
LowFindings(k) ==
    [i \in 1..k |-> [file |-> "a.ts", line |-> i, message |-> MsgEnv,
                     severity |-> "low", category |-> "naming"]]

\* findings the LLM reports after those: on a line, or on the file as a whole
LateFindings ==
    [file : {"a.ts"}, line : {40, AbsentNum}, message : {MsgConfig},
     severity : {"high", "low"}, category : {"security"}]

\* .slice(0, 30) of postEnhancedReview
InlineLimit == 30

MaxLate == 1

\* reviews with about as many findings as a review carries inline comments
LongContexts ==
    { [agent |-> "PR Review Agent",
       files |-> <<[filename |-> "a.ts", status |-> "modified"]>>,
       parsed |-> LowFindings(k) \o late]
      : k \in {InlineLimit - 1, InlineLimit}, late \in BoundedSeq(LateFindings, MaxLate) }

WebhookContexts ==
    LongContexts \cup
    { [agent |-> "PR Review Agent", files |-> <<>>, parsed |-> <<>>],
      [agent |-> "PR Review Agent",
       files |-> <<[filename |-> "a.ts", status |-> "modified"]>>,
       parsed |-> <<>>],
      [agent |-> "PR Review Agent",
       files |-> <<[filename |-> "a.ts", status |-> "modified"]>>,
       parsed |-> <<[file |-> "a.ts", line |-> 5, message |-> MsgConfig,
                     severity |-> "high", category |-> "security"]>>] }

\* overallScore of a standard review
StandardScores == {3, 6, 8, 10}

InitWebhook ==
    /\ pc = "received"
    /\ payload \in Payloads
    /\ context \in WebhookContexts
    /\ github = NoGithub
    /\ overallScore = AbsentNum
    /\ autoFix = NoFix
    /\ IdleSide
    /\ IdleEngine

\* a slip that leaves out the check for an empty file list
HandlePullRequestEvent_noSkip(fetchOk) ==
    /\ pc = "received"
    /\ payload.entry = "webhook"
    /\ IF payload.action \notin HandledActions
       THEN pc' = "done" /\ github' = github
       ELSE IF ~fetchOk
       THEN pc' = "error" /\ github' = Threw("fetch")
       ELSE /\ pc' = IF payload.useEnhancedReview THEN "enhanced" ELSE "standard"
            /\ github' = github
    /\ UNCHANGED <<engineVars, payload, context, overallScore, autoFix, sideVars>>

\* handlePullRequestEvent up to the choice of the review: other actions are
\* ignored, the PR data and files are fetched, a PR without files is skipped
HandlePullRequestEvent(fetchOk) ==
    /\ pc = "received"
    /\ payload.entry = "webhook"
    /\ IF payload.action \notin HandledActions
       THEN pc' = "done" /\ github' = github
       ELSE IF ~fetchOk
       THEN pc' = "error" /\ github' = Threw("fetch")
       ELSE IF Len(context.files) = 0
       THEN pc' = "done" /\ github' = github
       ELSE /\ pc' = IF payload.useEnhancedReview THEN "enhanced" ELSE "standard"
            /\ github' = github
    /\ UNCHANGED <<engineVars, payload, context, overallScore, autoFix, sideVars>>

\* the controller's analyzeAndReview starts the enhanced analysis directly
AnalyzeAndReview ==
    /\ pc = "received"
    /\ payload.entry = "controller"
    /\ pc' = "enhanced"
    /\ UNCHANGED <<engineVars, hostVars>>

\* ReviewService.reviewPullRequest returns a review or rethrows
ReviewPullRequest(score, ok) ==
    /\ pc = "standard"
    /\ IF ok
       THEN overallScore' = score /\ pc' = "reviewed" /\ github' = github
       ELSE /\ overallScore' = overallScore
            /\ pc' = "error"
            /\ github' = Threw("reviewPullRequest")
    /\ UNCHANGED <<engineVars, payload, context, autoFix, sideVars>>

\* the event postReviewResults submits
standardReviewEvent(score) ==
    IF score >= 8 THEN "APPROVE"
    ELSE IF score >= 6 THEN "COMMENT"
    ELSE "REQUEST_CHANGES"

\* postReviewResults: the review; the whole body as a general comment when
\* createReview throws; the general suggestions, when there are any, as a
\* comment after the review
PostReviewResults(createOk, general, commentOk) ==
    /\ pc = "reviewed"
    /\ event' = standardReviewEvent(overallScore)
    /\ LET created == IF createOk
                      THEN [github EXCEPT !.reviews = Append(@, event')]
                      ELSE [github EXCEPT !.failed = @ \cup {"createReview"}]
       IN IF createOk /\ ~general
          THEN github' = created /\ pc' = "done"
          ELSE IF commentOk
          THEN github' = [created EXCEPT !.comments = @ + 1] /\ pc' = "done"
          ELSE /\ github' = [created EXCEPT !.failed = @ \cup {"postGeneralComment"}]
               /\ pc' = "error"
    /\ UNCHANGED <<agentResults, aggregatedComments, reviewResult, analysis,
                   payload, context, overallScore, autoFix, sideVars>>

\* processFullPRAnalysis returns the analysis or rethrows; the webhook handler
\* catches and falls back, the controller does not catch
ProcessFullPRAnalysis(risk, ok) ==
    /\ pc = "enhanced"
    /\ IF ok /\ ~reviewAnalyzeThrows(context)
       THEN /\ reviewResult' = reviewAnalyze(context)
            /\ analysis' = [reviewResult |-> reviewResult', riskLevel |-> risk]
            /\ pc' = "analysisReady"
            /\ github' = github
       ELSE /\ UNCHANGED <<reviewResult, analysis>>
            /\ github' = Threw("processFullPRAnalysis")
            /\ pc' = IF payload.entry = "webhook" THEN "fallback" ELSE "crashed"
    /\ UNCHANGED <<agentResults, aggregatedComments, event,
                   payload, context, overallScore, autoFix, sideVars>>

\* the inline comments of a review: the comments with a file and a positive
\* line, cut to the first 30; the body of one shows the comment
inlineComments(comments) ==
    LET eligible == SelectSeq(comments,
                              LAMBDA c : /\ c.line # AbsentNum /\ c.line > 0
                                         /\ ~Falsy(c.file) /\ Len(trim(c.file)) > 0)
    IN [i \in 1..Min(InlineLimit, Len(eligible)) |->
           [path |-> eligible[i].file, line |-> eligible[i].line, body |-> eligible[i]]]

\* postEnhancedReview: the review, or the body as a general comment when
\* createReview throws; then the changelog preview; any other throw is rethrown
PostEnhancedReview(createOk, commentOk, previewOk) ==
    /\ pc = "analysisReady"
    /\ event' = determineReviewEvent(analysis)
    /\ LET created == IF createOk
                      THEN [github EXCEPT
                               !.reviews = Append(@, event'),
                               !.inline = inlineComments(analysis.reviewResult.comments)]
                      ELSE [github EXCEPT !.failed = @ \cup {"createReview"}]
           posted == IF createOk THEN created
                     ELSE IF commentOk
                     THEN [created EXCEPT !.comments = @ + 1]
                     ELSE [created EXCEPT !.failed = @ \cup {"postGeneralComment"}]
           thrown == ~createOk /\ ~commentOk
       IN IF ~thrown /\ previewOk
          THEN github' = [posted EXCEPT !.comments = @ + 1] /\ pc' = "done"
          ELSE /\ github' = IF thrown THEN posted
                            ELSE [posted EXCEPT !.failed = @ \cup {"postChangelogPreview"}]
               /\ pc' = IF payload.entry = "webhook" THEN "fallback" ELSE "crashed"
    /\ UNCHANGED <<agentResults, aggregatedComments, reviewResult, analysis,
                   payload, context, overallScore, autoFix, sideVars>>

\* the catch of handleEnhancedPRReview: fetch again, then the standard review
EnhancedFallback(fetchOk) ==
    /\ pc = "fallback"
    /\ IF fetchOk
       THEN pc' = "standard" /\ github' = github
       ELSE pc' = "error" /\ github' = Threw("refetch")
    /\ UNCHANGED <<engineVars, payload, context, overallScore, autoFix, sideVars>>

\* the catch of handlePullRequestEvent posts the error as a general comment;
\* when that throws too the handler's promise rejects
PostErrorComment(commentOk) ==
    /\ pc = "error"
    /\ IF commentOk
       THEN github' = [github EXCEPT !.comments = @ + 1] /\ pc' = "done"
       ELSE github' = Threw("postErrorComment") /\ pc' = "crashed"
    /\ UNCHANGED <<engineVars, payload, context, overallScore, autoFix, sideVars>>

NextWebhook ==
    \/ \E fetchOk \in BOOLEAN : HandlePullRequestEvent(fetchOk)
    \/ AnalyzeAndReview
    \/ \E score \in StandardScores, ok \in BOOLEAN : ReviewPullRequest(score, ok)
    \/ \E createOk, general, commentOk \in BOOLEAN :
          PostReviewResults(createOk, general, commentOk)
    \/ \E risk \in RiskLevels, ok \in BOOLEAN : ProcessFullPRAnalysis(risk, ok)
    \/ \E createOk, commentOk, previewOk \in BOOLEAN :
          PostEnhancedReview(createOk, commentOk, previewOk)
    \/ \E fetchOk \in BOOLEAN : EnhancedFallback(fetchOk)
    \/ \E commentOk \in BOOLEAN : PostErrorComment(commentOk)

SpecWebhook == InitWebhook /\ [][NextWebhook]_vars

-----------------------------------------------------------------------------
(* WebhookController: handleGitHubWebhook, verifySignature *)

\* GITHUB_WEBHOOK_SECRET as the constructor read it
webhookSecret == "s3cret"

\* `sha256=` and the 64 hex digits of a SHA-256 digest
SignatureLength == 71

\* `sha256=${createHmac('sha256', key).update(text).digest('hex')}`: the
\* digest stands for the key and the text it was computed from
Sign(key, text) == [prefix |-> "sha256=", key |-> key, text |-> text, length |-> SignatureLength]

\* JSON.stringify of a webhook payload
Stringify(p) == "{\"action\":\"" \o p.action \o "\"}"

\* the bytes a sender can put on the wire for a payload
RawBodies(p) == {Stringify(p), "{ \"action\": \"" \o p.action \o "\" }"}

\* headers a sender can supply: none, an empty one, one that is no SHA-256
\* signature, and signatures of either text under the secret or a guess
Signatures(p) ==
    {NoSignature, [prefix |-> "sha1=", key |-> "guess", text |-> "", length |-> 45]}
    \cup {Sign(key, text) : key \in {webhookSecret, "guess"}, text \in RawBodies(p)}

EventTypes == {"pull_request", "pull_request_review", "push"}

\* rawBody is AbsentStr when the body parser kept no raw body
Requests ==
    UNION { [eventType : EventTypes, signature : Signatures(p),
             rawBody : RawBodies(p) \cup {AbsentStr}, payload : {p}, status : {0}]
            : p \in {q \in Payloads : q.entry = "webhook"} }

\* line 134 of the controller
skipSignatureVerification == TRUE

\* verifySignature: "false", "true", or "throws" when timingSafeEqual is given
\* buffers of different lengths
verifySignature(text, signature) ==
    IF signature.length = 0 \/ webhookSecret = "" THEN "false"
    ELSE IF signature.length # SignatureLength THEN "throws"
    ELSE IF signature = Sign(webhookSecret, text) THEN "true" ELSE "false"

\* the text the controller verifies
VerifiedText(req) == IF req.rawBody # AbsentStr THEN req.rawBody ELSE Stringify(req.payload)

InitController ==
    /\ pc = "request"
    /\ request \in Requests
    /\ IdleEngine
    /\ payload = NoPayload
    /\ context \in WebhookContexts
    /\ github = NoGithub
    /\ overallScore = AbsentNum
    /\ autoFix = NoFix
    /\ currentPersona = "senior"
    /\ requests = <<>>
    /\ parser = [response |-> "", comments |-> <<>>]
    /\ branch = NoBranch
    /\ review = NoReview
    /\ registry = InitialRegistry

\* handleGitHubWebhook up to the dispatch on the event type: 401 when the
\* check fails, 500 when verifySignature throws, else handlePullRequestEvent
\* for a pull_request event and 201 at once for any other event
HandleGitHubWebhook ==
    /\ pc = "request"
    /\ LET verified == IF skipSignatureVerification THEN "true"
                       ELSE verifySignature(VerifiedText(request), request.signature)
       IN IF verified = "false"
          THEN /\ request' = [request EXCEPT !.status = 401]
               /\ pc' = "unauthorized"
               /\ payload' = payload
          ELSE IF verified = "throws"
          THEN /\ request' = [request EXCEPT !.status = 500]
               /\ pc' = "crashed"
               /\ payload' = payload
          ELSE IF request.eventType = "pull_request"
          THEN /\ request' = request
               /\ pc' = "received"
               /\ payload' = request.payload
          ELSE /\ request' = [request EXCEPT !.status = 201]
               /\ pc' = "done"
               /\ payload' = payload
    /\ UNCHANGED <<engineVars, context, github, overallScore, autoFix,
                   currentPersona, requests, parser, branch, review, registry>>

NextController ==
    \/ HandleGitHubWebhook
    \/ \E fetchOk \in BOOLEAN : HandlePullRequestEvent(fetchOk)
    \/ \E score \in StandardScores, ok \in BOOLEAN : ReviewPullRequest(score, ok)
    \/ \E createOk, general, commentOk \in BOOLEAN :
          PostReviewResults(createOk, general, commentOk)
    \/ \E risk \in RiskLevels, ok \in BOOLEAN : ProcessFullPRAnalysis(risk, ok)
    \/ \E createOk, commentOk, previewOk \in BOOLEAN :
          PostEnhancedReview(createOk, commentOk, previewOk)
    \/ \E fetchOk \in BOOLEAN : EnhancedFallback(fetchOk)
    \/ \E commentOk \in BOOLEAN : PostErrorComment(commentOk)

SpecController == InitController /\ [][NextController]_vars

-----------------------------------------------------------------------------
(* JSON.parse, for JSON texts without string escapes.  A value is a record:  *)
(* t its type, s the text of a string, number or literal, keys the keys of   *)
(* an object in insertion order, items the elements of an array or the       *)
(* values of an object.                                                      *)

JValue(t, str, keys, items) == [t |-> t, s |-> str, keys |-> keys, items |-> items]

JNull == JValue("null", "null", <<>>, <<>>)

JBool(str) == JValue("boolean", str, <<>>, <<>>)

JNum(str) == JValue("number", str, <<>>, <<>>)

JStr(str) == JValue("string", str, <<>>, <<>>)

JArr(items) == JValue("array", "", <<>>, items)

JObj(keys, items) == JValue("object", "", keys, items)

\* the character at i, "" beyond the end
At(str, i) == IF i >= 1 /\ i <= Len(str) THEN SubSeq(str, i, i) ELSE ""

StartsWithAt(str, i, prefix) ==
    /\ i + Len(prefix) - 1 <= Len(str)
    /\ SubSeq(str, i, i + Len(prefix) - 1) = prefix

Digits == {"0", "1", "2", "3", "4", "5", "6", "7", "8", "9"}

RECURSIVE SkipWs(_, _)
SkipWs(str, i) == IF IsSpace(At(str, i)) THEN SkipWs(str, i + 1) ELSE i

RECURSIVE SkipDigits(_, _)
SkipDigits(str, i) == IF At(str, i) \in Digits THEN SkipDigits(str, i + 1) ELSE i

\* the position of the quote closing a string whose text starts at i; 0 when
\* the string is not closed on its line
RECURSIVE ClosingQuote(_, _)
ClosingQuote(str, i) ==
    IF At(str, i) \in {"", "\n", "\r", "\t", "\\"} THEN 0
    ELSE IF At(str, i) = "\"" THEN i
    ELSE ClosingQuote(str, i + 1)

\* a parse: ok, the value v and the position i after it
Parsed(v, i) == [ok |-> TRUE, v |-> v, i |-> i]

SyntaxError == [ok |-> FALSE, v |-> JNull, i |-> 0]

\* -?(0|[1-9][0-9]*)(\.[0-9]+)?([eE][+-]?[0-9]+)?
ParseNumber(str, i) ==
    LET int == IF At(str, i) = "-" THEN i + 1 ELSE i
        intEnd == IF At(str, int) = "0" THEN int + 1 ELSE SkipDigits(str, int)
        fracEnd == IF At(str, intEnd) = "." THEN SkipDigits(str, intEnd + 1) ELSE intEnd
        exp == IF At(str, fracEnd + 1) \in {"+", "-"} THEN fracEnd + 2 ELSE fracEnd + 1
        expEnd == IF At(str, fracEnd) \in {"e", "E"} THEN SkipDigits(str, exp) ELSE fracEnd
    IN IF intEnd = int THEN SyntaxError
       ELSE IF At(str, intEnd) = "." /\ fracEnd = intEnd + 1 THEN SyntaxError
       ELSE IF At(str, fracEnd) \in {"e", "E"} /\ expEnd = exp THEN SyntaxError
       ELSE Parsed(JNum(SubSeq(str, i, expEnd - 1)), expEnd)

ParseString(str, i) ==
    LET close == ClosingQuote(str, i + 1)
    IN IF At(str, i) # "\"" \/ close = 0 THEN SyntaxError
       ELSE Parsed(JStr(SubSeq(str, i + 1, close - 1)), close + 1)

\* obj[key] = value
SetField(obj, key, value) ==
    IF \E k \in 1..Len(obj.keys) : obj.keys[k] = key
    THEN [obj EXCEPT !.items = [k \in 1..Len(obj.keys) |->
                                   IF obj.keys[k] = key THEN value ELSE obj.items[k]]]
    ELSE [obj EXCEPT !.keys = Append(@, key), !.items = Append(@, value)]

HasField(obj, key) == \E k \in 1..Len(obj.keys) : obj.keys[k] = key

GetField(obj, key) ==
    obj.items[CHOOSE k \in 1..Len(obj.keys) : obj.keys[k] = key]

RECURSIVE ParseValue(_, _)
RECURSIVE ParseElements(_, _, _)
RECURSIVE ParseMembers(_, _, _)

\* the elements of an array from position i on, items being those read
ParseElements(str, i, items) ==
    LET element == ParseValue(str, i)
        next == SkipWs(str, element.i)
    IN IF ~element.ok THEN SyntaxError
       ELSE IF At(str, next) = "," THEN ParseElements(str, next + 1, Append(items, element.v))
       ELSE IF At(str, next) = "]" THEN Parsed(JArr(Append(items, element.v)), next + 1)
       ELSE SyntaxError

\* the members of an object from position i on, obj holding those read
ParseMembers(str, i, obj) ==
    LET key == ParseString(str, SkipWs(str, i))
        colon == SkipWs(str, key.i)
        member == ParseValue(str, colon + 1)
        next == SkipWs(str, member.i)
    IN IF ~key.ok \/ At(str, colon) # ":" THEN SyntaxError
       ELSE IF ~member.ok THEN SyntaxError
       ELSE IF At(str, next) = ","
       THEN ParseMembers(str, next + 1, SetField(obj, key.v.s, member.v))
       ELSE IF At(str, next) = "}"
       THEN Parsed(SetField(obj, key.v.s, member.v), next + 1)
       ELSE SyntaxError

ParseValue(str, i) ==
    LET start == SkipWs(str, i)
        c == At(str, start)
    IN IF c = "[" THEN
            IF At(str, SkipWs(str, start + 1)) = "]"
            THEN Parsed(JArr(<<>>), SkipWs(str, start + 1) + 1)
            ELSE ParseElements(str, start + 1, <<>>)
       ELSE IF c = "{" THEN
            IF At(str, SkipWs(str, start + 1)) = "}"
            THEN Parsed(JObj(<<>>, <<>>), SkipWs(str, start + 1) + 1)
            ELSE ParseMembers(str, start + 1, JObj(<<>>, <<>>))
       ELSE IF c = "\"" THEN ParseString(str, start)
       ELSE IF StartsWithAt(str, start, "null") THEN Parsed(JNull, start + 4)
       ELSE IF StartsWithAt(str, start, "true") THEN Parsed(JBool("true"), start + 4)
       ELSE IF StartsWithAt(str, start, "false") THEN Parsed(JBool("false"), start + 5)
       ELSE IF c = "-" \/ c \in Digits THEN ParseNumber(str, start)
       ELSE SyntaxError

\* JSON.parse(text): a SyntaxError unless the whole text is one value
JSONParse(text) ==
    LET value == ParseValue(text, 1)
    IN IF value.ok /\ SkipWs(text, value.i) > Len(text) THEN value ELSE SyntaxError

-----------------------------------------------------------------------------
(* BaseAgentService: parseResponse, parseStructuredText *)

startsWith(str, prefix) == StartsWithAt(str, 1, prefix)

\* str.substring(n).trim()
TrimmedFrom(str, n) == trim(SubSeq(str, n + 1, Len(str)))

RECURSIVE StripZeros(_)
StripZeros(digits) ==
    IF Len(digits) > 1 /\ At(digits, 1) = "0"
    THEN StripZeros(SubSeq(digits, 2, Len(digits)))
    ELSE digits

\* parseInt(str, 10): the integer the text starts with, NaN without one
parseInt(str) ==
    LET text == trimStart(str)
        first == IF At(text, 1) \in {"+", "-"} THEN 2 ELSE 1
        end == SkipDigits(text, first)
        digits == StripZeros(SubSeq(text, first, end - 1))
    IN IF end = first THEN JNum("NaN")
       ELSE IF At(text, 1) = "-" /\ digits # "0" THEN JNum("-" \o digits)
       ELSE JNum(digits)

\* currentComment.message is set and not empty
HasMessage(comment) == HasField(comment, "message") /\ GetField(comment, "message").s # ""

\* the body of the loop over the lines: state.comments are the comments
\* pushed, state.currentComment the one being read
StructuredLine(state, line) ==
    LET trimmed == trim(line)
        currentComment == state.currentComment
        Set(key, value) == [state EXCEPT !.currentComment = SetField(@, key, value)]
    IN IF startsWith(trimmed, "FILE:")
       THEN [comments |-> IF HasMessage(currentComment)
                          THEN Append(state.comments, currentComment)
                          ELSE state.comments,
             currentComment |-> JObj(<<"file">>, <<JStr(TrimmedFrom(trimmed, 5))>>)]
       ELSE IF startsWith(trimmed, "LINE:")
       THEN Set("line", parseInt(TrimmedFrom(trimmed, 5)))
       ELSE IF startsWith(trimmed, "SEVERITY:")
       THEN Set("severity", JStr(TrimmedFrom(trimmed, 9)))
       ELSE IF startsWith(trimmed, "CATEGORY:")
       THEN Set("category", JStr(TrimmedFrom(trimmed, 9)))
       ELSE IF startsWith(trimmed, "MESSAGE:")
       THEN Set("message", JStr(TrimmedFrom(trimmed, 8)))
       ELSE IF startsWith(trimmed, "SUGGESTION:")
       THEN Set("suggestion", JStr(TrimmedFrom(trimmed, 11)))
       ELSE state

RECURSIVE StructuredLines(_, _)
StructuredLines(lines, i) ==
    IF i = 0 THEN [comments |-> <<>>, currentComment |-> JObj(<<>>, <<>>)]
    ELSE StructuredLine(StructuredLines(lines, i - 1), lines[i])

parseStructuredText(response) ==
    LET lines == split(response, "\n")
        state == StructuredLines(lines, Len(lines))
    IN IF HasMessage(state.currentComment)
       THEN Append(state.comments, state.currentComment)
       ELSE state.comments

\* JSON.parse throws on text that is not JSON, and reading parsed.comments
\* throws on null: both inside the try, whose catch parses structured text
parseResponse(response) ==
    LET parsed == JSONParse(response)
    IN IF ~parsed.ok THEN parseStructuredText(response)
       ELSE IF parsed.v.t = "array" THEN parsed.v.items
       ELSE IF parsed.v.t = "null" THEN parseStructuredText(response)
       ELSE IF /\ parsed.v.t = "object"
               /\ HasField(parsed.v, "comments")
               /\ GetField(parsed.v, "comments").t = "array"
       THEN GetField(parsed.v, "comments").items
       ELSE <<>>

\* elements an LLM puts in the array it answers
JsonElements ==
    { "null", "42", "{}", "{\"message\":\"Use const\"}",
      "{\"file\":\"a.ts\",\"line\":5,\"message\":\"Use const\",\"severity\":\"low\",\"category\":\"style\"}" }

JsonArrays == { "[" \o Join(elements, ", ") \o "]" :
                    elements \in BoundedSeq(JsonElements, MaxFindings) }

LLMResponses ==
    JsonArrays
    \cup { "{\"comments\": " \o array \o "}" : array \in JsonArrays }
    \cup { "Here are the findings:\n" \o array : array \in JsonArrays }
    \cup { "", "null", "42", "true", "\"No issues found.\"", "No issues found.",
           "{\"comments\":null}", "{\"comments\":{}}", "{\"summary\":\"ok\"}",
           "FILE: a.ts\nLINE: 5\nSEVERITY: high\nCATEGORY: security\nMESSAGE: Use const",
           "FILE: a.ts\nLINE: soon\nMESSAGE: Use const\n  FILE: b.ts\n  MESSAGE: Add tests\nSUGGESTION: it()",
           "FILE: a.ts\nLINE: 007",
           "MESSAGE: Use const",
           "FILE: a.ts\nMESSAGE:   \n",
           "SUGGESTION: none",
           "- Use const\n* Add tests",
           "Findings:\n- Use const" }

InitParser ==
    /\ pc = "response"
    /\ parser \in [response : LLMResponses, comments : {<<>>}]
    /\ currentPersona = "senior"
    /\ requests = <<>>
    /\ branch = NoBranch
    /\ IdleMore
    /\ IdleEngine
    /\ payload = NoPayload
    /\ context = NoContext
    /\ github = NoGithub
    /\ overallScore = AbsentNum
    /\ autoFix = NoFix

ParseResponse ==
    /\ pc = "response"
    /\ parser' = [parser EXCEPT !.comments = parseResponse(parser.response)]
    /\ pc' = "parsed"
    /\ UNCHANGED <<engineVars, payload, context, github, overallScore, autoFix,
                   currentPersona, requests, branch, moreVars>>

SpecParser == InitParser /\ [][ParseResponse]_vars

-----------------------------------------------------------------------------
(* ReviewService: parseAIResponse, validateReviewResult, validateSuggestion *)

\* the first position at or after from at which sub occurs in str, 0 when none
IndexOf(str, sub, from) ==
    LET at == {i \in from..(Len(str) - Len(sub) + 1) : StartsWithAt(str, i, sub)}
    IN IF at = {} THEN 0 ELSE CHOOSE i \in at : \A j \in at : i <= j

\* the last position at which sub occurs in str, 0 when none
LastIndexOfText(str, sub) ==
    LET at == {i \in 1..(Len(str) - Len(sub) + 1) : StartsWithAt(str, i, sub)}
    IN IF at = {} THEN 0 ELSE CHOOSE i \in at : \A j \in at : i >= j

\* the three backquotes of a markdown code fence; a string of this module
\* cannot hold a backquote, ~ stands for it
Fence == "~~~"

NoMatch == [found |-> FALSE, jsonStr |-> ""]

\* response.match(/<open>([\s\S]*?)\n<fence>/) and match[1] || match[0]:
\* the first opening fence, and the lazy group up to the first closing fence
MatchFence(response, open) ==
    LET start == IndexOf(response, open, 1)
        close == IF start = 0 THEN 0 ELSE IndexOf(response, "\n" \o Fence, start + Len(open))
        group == SubSeq(response, start + Len(open), close - 1)
    IN IF close = 0 THEN NoMatch
       ELSE [found |-> TRUE,
             jsonStr |-> IF group # "" THEN group ELSE SubSeq(response, start, close + 3)]

\* response.match(/\{[\s\S]*\}/): from the first { to the last }
MatchBraces(response) ==
    LET start == IndexOf(response, "{", 1)
        end == LastIndexOfText(response, "}")
    IN IF start = 0 \/ end < start THEN NoMatch
       ELSE [found |-> TRUE, jsonStr |-> SubSeq(response, start, end)]

\* jsonPatterns, in the order they are tried
MatchPattern(response, k) ==
    CASE k = 1 -> MatchFence(response, Fence \o "json\n")
      [] k = 2 -> MatchFence(response, Fence \o "\n")
      [] OTHER -> MatchBraces(response)

RECURSIVE DigitsValue(_)
DigitsValue(digits) ==
    IF Len(digits) = 0 THEN 0
    ELSE 10 * DigitsValue(SubSeq(digits, 1, Len(digits) - 1))
            + (CHOOSE d \in 0..9 : ToString(d) = At(digits, Len(digits)))

RECURSIVE Pow10(_)
Pow10(n) == IF n = 0 THEN 1 ELSE 10 * Pow10(n - 1)

\* the number a JSON number text denotes is n * 10^k
NumberParts(text) ==
    LET int == IF At(text, 1) = "-" THEN 2 ELSE 1
        intEnd == SkipDigits(text, int)
        fracEnd == IF At(text, intEnd) = "." THEN SkipDigits(text, intEnd + 1) ELSE intEnd
        frac == SubSeq(text, intEnd + 1, fracEnd - 1)
        exp == IF At(text, fracEnd) \notin {"e", "E"} THEN 0
               ELSE IF At(text, fracEnd + 1) = "-"
               THEN 0 - DigitsValue(SubSeq(text, fracEnd + 2, Len(text)))
               ELSE IF At(text, fracEnd + 1) = "+"
               THEN DigitsValue(SubSeq(text, fracEnd + 2, Len(text)))
               ELSE DigitsValue(SubSeq(text, fracEnd + 1, Len(text)))
        digits == DigitsValue(SubSeq(text, int, intEnd - 1) \o frac)
    IN [n |-> IF At(text, 1) = "-" THEN 0 - digits ELSE digits, k |-> exp - Len(frac)]

\* x < bound for the number the text denotes
NumberBelow(text, bound) ==
    LET p == NumberParts(text)
    IN IF p.k >= 0 THEN p.n * Pow10(p.k) < bound ELSE p.n < bound * Pow10(0 - p.k)

\* x > bound for the number the text denotes
NumberAbove(text, bound) ==
    LET p == NumberParts(text)
    IN IF p.k >= 0 THEN p.n * Pow10(p.k) > bound ELSE p.n > bound * Pow10(0 - p.k)

\* value && typeof value === 'string'
NonEmptyString(obj, key) ==
    HasField(obj, key) /\ GetField(obj, key).t = "string" /\ GetField(obj, key).s # ""

SuggestionTypes ==
    {"bug", "improvement", "security", "naming", "edge_case", "documentation", "testing"}

SuggestionSeverities == {"low", "medium", "high", "critical"}

\* validateSuggestion returns no error; a property of a number, string or
\* boolean is undefined
validSuggestion(suggestion) ==
    /\ suggestion.t = "object"
    /\ NonEmptyString(suggestion, "filename")
    /\ HasField(suggestion, "type")
    /\ GetField(suggestion, "type").t = "string"
    /\ GetField(suggestion, "type").s \in SuggestionTypes
    /\ HasField(suggestion, "severity")
    /\ GetField(suggestion, "severity").t = "string"
    /\ GetField(suggestion, "severity").s \in SuggestionSeverities
    /\ NonEmptyString(suggestion, "title")
    /\ NonEmptyString(suggestion, "description")
    /\ HasField(suggestion, "line") =>
          /\ GetField(suggestion, "line").t = "number"
          /\ ~NumberBelow(GetField(suggestion, "line").s, 1)
    /\ HasField(suggestion, "suggestedFix") =>
          GetField(suggestion, "suggestedFix").t = "string"

\* validateReviewResult(parsed).isValid; reading a property of null throws,
\* which the try around JSON.parse catches as it does a SyntaxError
validateReviewResult(result) ==
    /\ result.t = "object"
    /\ NonEmptyString(result, "summary")
    /\ HasField(result, "overallScore")
    /\ GetField(result, "overallScore").t = "number"
    /\ ~NumberBelow(GetField(result, "overallScore").s, 1)
    /\ ~NumberAbove(GetField(result, "overallScore").s, 10)
    /\ HasField(result, "suggestions")
    /\ GetField(result, "suggestions").t = "array"
    /\ \A i \in 1..Len(GetField(result, "suggestions").items) :
          validSuggestion(GetField(result, "suggestions").items[i])

\* the result of the first pattern from k on that matches text which parses
\* and validates; parsed is FALSE when there is none
RECURSIVE ParsedJson(_, _)
ParsedJson(response, k) ==
    IF k > 3 THEN [parsed |-> FALSE, v |-> JNull]
    ELSE LET match == MatchPattern(response, k)
             json == JSONParse(match.jsonStr)
         IN IF match.found /\ json.ok /\ validateReviewResult(json.v)
            THEN [parsed |-> TRUE, v |-> json.v]
            ELSE ParsedJson(response, k + 1)

\* trimmed.match(/(\d+)/): the first run of digits, "" when there is none
FirstDigits(str) ==
    LET at == {i \in 1..Len(str) : At(str, i) \in Digits}
        first == CHOOSE i \in at : \A j \in at : i <= j
    IN IF at = {} THEN "" ELSE SubSeq(str, first, SkipDigits(str, first) - 1)

DefaultScore == 7

\* the body of the loop of the text fallback over the lines
FallbackLine(state, line) ==
    LET trimmed == trim(line)
    IN IF startsWith(trimmed, "## Summary") \/ startsWith(trimmed, "**Summary:**")
       THEN [state EXCEPT !.currentSection = "summary"]
       ELSE IF \/ startsWith(trimmed, "## Suggestions")
               \/ startsWith(trimmed, "**Suggestions:**")
       THEN [state EXCEPT !.currentSection = "suggestions"]
       ELSE IF \/ startsWith(trimmed, "## Overall Score")
               \/ startsWith(trimmed, "**Overall Score:**")
       THEN IF FirstDigits(trimmed) # ""
            THEN [state EXCEPT !.overallScore = parseInt(FirstDigits(trimmed))]
            ELSE state
       ELSE IF state.currentSection = "summary" /\ trimmed # ""
       THEN [state EXCEPT !.summary = @ \o trimmed \o " "]
       ELSE IF state.currentSection = "suggestions" /\ startsWith(trimmed, "-")
       THEN [state EXCEPT !.suggestions =
                Append(@, JObj(<<"filename", "type", "severity", "title", "description">>,
                               <<JStr("general"), JStr("improvement"), JStr("medium"),
                                 JStr(TrimmedFrom(trimmed, 1)),
                                 JStr(TrimmedFrom(trimmed, 1))>>))]
       ELSE state

RECURSIVE FallbackLines(_, _)
FallbackLines(lines, i) ==
    IF i = 0
    THEN [currentSection |-> "", summary |-> "", suggestions |-> <<>>,
          overallScore |-> JNum(ToString(DefaultScore))]
    ELSE FallbackLine(FallbackLines(lines, i - 1), lines[i])

\* the ReviewResult parseAIResponse returns: the validated JSON value, or the
\* result of the text fallback.  Nothing in the outer try throws on a string,
\* so its catch is not entered
parseAIResponse(response) ==
    LET json == ParsedJson(response, 1)
        lines == split(response, "\n")
        state == FallbackLines(lines, Len(lines))
    IN IF json.parsed THEN json.v
       ELSE JObj(<<"summary", "suggestions", "overallScore">>,
                 <<JStr(IF trim(state.summary) # "" THEN trim(state.summary)
                        ELSE "Code review completed."),
                   JArr(state.suggestions), state.overallScore>>)

\* overallScore as an LLM writes it
ScoreTexts == {"0", "1", "7", "7.5", "10", "11", "85", "-3", "1e1", "0.5"}

\* the elements of a suggestions array: none, a valid one, one without title
SuggestionTexts ==
    { "",
      "{\"filename\":\"a.ts\",\"line\":5,\"type\":\"bug\",\"severity\":\"high\",\"title\":\"Leak\",\"description\":\"Close it\"}",
      "{\"filename\":\"a.ts\",\"line\":0,\"type\":\"bug\",\"severity\":\"high\",\"title\":\"Leak\",\"description\":\"Close it\"}" }

JsonReviews ==
    { "{\"summary\":\"ok\",\"overallScore\":" \o score \o ",\"suggestions\":[" \o suggestion \o "]}"
      : score \in ScoreTexts, suggestion \in SuggestionTexts }

\* answers of the LLM: the JSON asked for, fenced or in prose, and reviews in
\* markdown
AIResponses ==
    { Fence \o "json\n" \o json \o "\n" \o Fence : json \in JsonReviews }
    \cup { Fence \o "\n" \o json \o "\n" \o Fence : json \in JsonReviews }
    \cup { "Here is my review: " \o json \o "\n**Overall Score:** 9" : json \in JsonReviews }
    \cup { "## Summary\nLooks fine\n## Overall Score: " \o score \o "/10"
           : score \in ScoreTexts }
    \cup { "## Overall Score (out of 10): " \o score \o "\n## Suggestions\n- Add tests"
           : score \in ScoreTexts }
    \cup { "**Overall Score:** " \o score \o "/100" : score \in ScoreTexts }
    \cup { "No issues found.", "## Overall Score\nhigh", "null", Fence \o "json\n\n" \o Fence }

InitReview ==
    /\ pc = "aiMessage"
    /\ review \in [response : AIResponses, result : {JNull}]
    /\ IdleEngine
    /\ payload = NoPayload
    /\ context = NoContext
    /\ github = NoGithub
    /\ overallScore = AbsentNum
    /\ autoFix = NoFix
    /\ currentPersona = "senior"
    /\ requests = <<>>
    /\ parser = [response |-> "", comments |-> <<>>]
    /\ branch = NoBranch
    /\ request = NoRequest
    /\ registry = InitialRegistry

\* reviewPullRequest hands the content of the completion to parseAIResponse
ParseAIResponse ==
    /\ pc = "aiMessage"
    /\ review' = [review EXCEPT !.result = parseAIResponse(review.response)]
    /\ pc' = "reviewResult"
    /\ UNCHANGED <<engineVars, payload, context, github, overallScore, autoFix,
                   currentPersona, requests, parser, branch, request, registry>>

SpecReview == InitReview /\ [][ParseAIResponse]_vars

-----------------------------------------------------------------------------
(* Concurrent processFullPRAnalysis calls on the one PRReviewAgentService *)

MaxFiles == 2

\* a call awaiting the PR data and files; prompts are the personas its file
\* prompts were built with, reported is metadata.persona of its result
NewRequest(persona, files) ==
    [at |-> "fetching", persona |-> persona, files |-> files,
     prompts |-> <<>>, reported |-> "none"]

InitPersona ==
    /\ pc = "serving"
    /\ currentPersona \in Personas
    /\ \E p1, p2 \in Personas, n1, n2 \in 1..MaxFiles :
          requests = <<NewRequest(p1, n1), NewRequest(p2, n2)>>
    /\ IdleEngine
    /\ payload = NoPayload
    /\ context = NoContext
    /\ github = NoGithub
    /\ overallScore = AbsentNum
    /\ autoFix = NoFix
    /\ parser = [response |-> "", comments |-> <<>>]
    /\ branch = NoBranch
    /\ IdleMore

\* the fetch resolved: setPersona(persona), then the summary is awaited
SetPersona(r) ==
    /\ requests[r].at = "fetching"
    /\ currentPersona' = requests[r].persona
    /\ requests' = [requests EXCEPT ![r].at = "summarising"]
    /\ UNCHANGED <<pc, engineVars, payload, context, github, overallScore, autoFix,
                   parser, branch, moreVars>>

\* analyzeFile builds the prompts of a file from this.currentPersona and
\* awaits callLLM
AnalyzeFile(r) ==
    /\ \/ requests[r].at = "summarising"
       \/ requests[r].at = "callLLM" /\ Len(requests[r].prompts) < requests[r].files
    /\ requests' = [requests EXCEPT ![r].at = "callLLM",
                                    ![r].prompts = Append(@, currentPersona)]
    /\ UNCHANGED <<pc, engineVars, payload, context, github, overallScore, autoFix,
                   currentPersona, parser, branch, moreVars>>

\* after the last file analyze returns metadata.persona: this.currentPersona.name
ReturnResult(r) ==
    /\ requests[r].at = "callLLM"
    /\ Len(requests[r].prompts) = requests[r].files
    /\ requests' = [requests EXCEPT ![r].at = "done", ![r].reported = currentPersona]
    /\ UNCHANGED <<pc, engineVars, payload, context, github, overallScore, autoFix,
                   currentPersona, parser, branch, moreVars>>

NextPersona ==
    \E r \in 1..2 : SetPersona(r) \/ AnalyzeFile(r) \/ ReturnResult(r)

SpecPersona == InitPersona /\ [][NextPersona]_vars

-----------------------------------------------------------------------------
(* Claims *)

HighSecurity(c) == c.severity = "high" /\ c.category = "security"

HasHighSecurity(comments) == \E i \in 1..Len(comments) : HighSecurity(comments[i])

\* C1: whenever the analysis resolved holds a finding that is both high
\* severity and category security, the event is REQUEST_CHANGES, whatever the
\* score and the risk level.
C1_SecurityTripWire ==
    (pc = "resolved" /\ HasHighSecurity(analysis.reviewResult.comments))
        => event = "REQUEST_CHANGES"

C1_Witness ==
    /\ pc = "resolved"
    /\ HasHighSecurity(analysis.reviewResult.comments)
    /\ analysis.reviewResult.score = FromInt(100)
    /\ analysis.riskLevel = "low"
    /\ event = "REQUEST_CHANGES"

\* C2 as stated: score >= 85, risk not high and no finding that is both high
\* severity and security resolve to APPROVE (no finding carries a
\* merge-blocking flag: ReviewComment has no such field).
C2_Original ==
    (/\ pc = "resolved"
     /\ AtLeast(analysis.reviewResult.score, 85)
     /\ analysis.riskLevel # "high"
     /\ ~HasHighSecurity(analysis.reviewResult.comments))
        => event = "APPROVE"

\* C2 amended: score >= 85, risk not high, no finding of severity high and no
\* finding of category security resolve to APPROVE.
C2_Approve ==
    (/\ pc = "resolved"
     /\ AtLeast(analysis.reviewResult.score, 85)
     /\ analysis.riskLevel # "high"
     /\ CountSeverity(analysis.reviewResult.comments, "high") = 0
     /\ CountCategory(analysis.reviewResult.comments, "security") = 0)
        => event = "APPROVE"

C2_Witness ==
    /\ pc = "resolved"
    /\ analysis.reviewResult.score = FromInt(85)
    /\ analysis.riskLevel = "medium"
    /\ Len(analysis.reviewResult.comments) = 2
    /\ event = "APPROVE"

ScenarioSecurity ==
    [file |-> "a.ts", line |-> 5, message |-> MsgConfig,
     severity |-> "high", category |-> "security"]

ScenarioQuality ==
    [file |-> "a.ts", line |-> 5, message |-> MsgEnv,
     severity |-> "medium", category |-> "quality"]

ScenarioGiven ==
    /\ Len(agentResults) = 2
    /\ agentResults[1].agentName = "Security Agent"
    /\ agentResults[1].comments = <<ScenarioSecurity>>
    /\ agentResults[2].agentName = "Code Quality Agent"
    /\ agentResults[2].comments = <<ScenarioQuality>>

WithSource(c, name) ==
    [file |-> c.file, line |-> c.line, message |-> c.message,
     severity |-> c.severity, category |-> c.category, source |-> name]

\* C4 as stated: in the two-agent scenario the Deduplicator outputs exactly
\* one finding, the high one, it is first, and the verdict is REQUEST_CHANGES.
C4_Original ==
    (ScenarioGiven /\ pc = "resolved")
        => /\ Len(aggregatedComments) = 1
           /\ aggregatedComments[1].severity = "high"
           /\ reviewResult.comments[1].severity = "high"
           /\ event = "REQUEST_CHANGES"

\* C4 amended: in the two-agent scenario the two messages differ within their
\* first 50 characters, so the Deduplicator keeps both findings; the
\* Prioritizer places the high-severity security finding first and the
\* verdict is REQUEST_CHANGES.
C4_Scenario ==
    (ScenarioGiven /\ pc \in {"summarized", "resolved"})
        => /\ aggregatedComments =
                <<WithSource(ScenarioSecurity, "Security Agent"),
                  WithSource(ScenarioQuality, "Code Quality Agent")>>
           /\ reviewResult.comments = aggregatedComments
           /\ pc = "resolved" => event = "REQUEST_CHANGES"

C4_Witness == ScenarioGiven /\ pc = "resolved" /\ Len(reviewResult.comments) = 2

\* C5: the Deduplicator applied to its own output returns that output, same
\* elements in the same order.
C5_DedupIdempotent ==
    pc = "summarized" => deduplicateComments(aggregatedComments) = aggregatedComments

C5_Witness ==
    /\ pc = "summarized"
    /\ Len(FlattenComments(agentResults)) = 2
    /\ Len(aggregatedComments) = 1
    /\ aggregatedComments[1] = FlattenComments(agentResults)[2]

\* C6 as stated: no two distinct findings of a Prioritizer output compare
\* equal.
C6_Original ==
    pc = "summarized" =>
        \A i, j \in 1..Len(reviewResult.comments) :
            i # j => compareComments(reviewResult.comments[i],
                                     reviewResult.comments[j]) # 0

PosIn(seq, x) == CHOOSE i \in 1..Len(seq) : seq[i] = x

\* C6 amended: of two findings of a Prioritizer output, the one with the
\* higher severity rank is first; at equal severity the one with the higher
\* category rank; at equal category rank the one with the smaller file name;
\* findings equal in all three compare equal and keep the order the
\* Deduplicator gave them.
C6_PriorityOrder ==
    pc = "summarized" =>
        \A i, j \in 1..Len(reviewResult.comments) :
            i < j =>
                LET a == reviewResult.comments[i]
                    b == reviewResult.comments[j]
                    sa == severityOrder(a.severity)
                    sb == severityOrder(b.severity)
                    ca == categoryOrder(a.category)
                    cb == categoryOrder(b.category)
                IN \/ sa > sb
                   \/ sa = sb /\ ca > cb
                   \/ sa = sb /\ ca = cb /\ FileRank(a.file) < FileRank(b.file)
                   \/ /\ sa = sb /\ ca = cb /\ a.file = b.file
                      /\ compareComments(a, b) = 0
                      /\ PosIn(aggregatedComments, a) < PosIn(aggregatedComments, b)

\* two distinct findings of one output that compare equal
C6_Witness ==
    /\ pc = "summarized"
    /\ Len(reviewResult.comments) = 2
    /\ reviewResult.comments[1] # reviewResult.comments[2]
    /\ reviewResult.comments[1].file = reviewResult.comments[2].file
    /\ reviewResult.comments[1].severity = reviewResult.comments[2].severity
    /\ reviewResult.comments[1].category = reviewResult.comments[2].category

\* role weights of the claim, in hundredths
ClaimWeight(name) ==
    CASE name = "Security Agent" -> 30
      [] name = "Code Quality Agent" -> 25
      [] name = "Performance Agent" -> 20
      [] name = "Testing Agent" -> 15
      [] OTHER -> 10

\* the integer an integral score stands for, 0 for an absent score
ScoreValue(score) == IF Truthy(score) THEN MathRound(score) ELSE 0

RECURSIVE ClaimSum(_, _)
ClaimSum(results, withScore) ==
    IF results = <<>> THEN 0
    ELSE (IF withScore THEN ScoreValue(Head(results).score) ELSE 1)
            * ClaimWeight(Head(results).agentName)
         + ClaimSum(Tail(results), withScore)

\* C10: the overall score is the integer nearest to
\* sum(score_i * weight_i) / sum(weight_i) (halves up) over the agents
\* present, an absent score counting 0, and 100 when no agent ran.
C10_WeightedAggregate ==
    pc = "summarized" =>
        LET s == ScoreValue(reviewResult.score)
            ws == ClaimSum(agentResults, TRUE)
            tw == ClaimSum(agentResults, FALSE)
        IN /\ reviewResult.score = FromInt(s)
           /\ IF agentResults = <<>> THEN s = 100
              ELSE 2 * s * tw - tw <= 2 * ws /\ 2 * ws < 2 * s * tw + tw

InScoreRange(x) == IsNumber(x) /\ FCmp(x, Zero) >= 0 /\ FCmp(x, FromInt(100)) <= 0

\* C7: the overall score of any list of agent results (scores within 0..100
\* or absent) is a number within 0..100, and the confidence of every
\* generated fix is within 0..100.
C7_ScoreBounds ==
    /\ pc = "summarized" => InScoreRange(reviewResult.score)
    /\ pc = "fixed" =>
          \A i \in 1..Len(autoFix.fixes) :
              autoFix.fixes[i].confidence \in 0..100

\* a fix whose confidence would be 110 were it not clamped
C7_Witness ==
    /\ pc = "fixed"
    /\ Len(autoFix.fixes) = 1
    /\ autoFix.fixes[1].confidence = 100
    /\ RawConfidence(autoFix.comment[1], autoFix.fixes[1].originalCode,
                     trim(autoFix.response)) = 110

\* C8: whenever the result an agent's analyze returns has no findings, its
\* score is 100.
C8_ZeroFindingsScore ==
    (pc = "analysed" /\ Len(reviewResult.comments) = 0)
        => reviewResult.score = FromInt(100)

Ended == pc \in {"done", "crashed"}

Handled == payload.entry = "webhook" /\ payload.action \in HandledActions

DeductionScore(agent, comments) ==
    CASE agent = "Security Agent" -> calculateSecurityScore(comments)
      [] agent = "Performance Agent" -> calculatePerformanceScore(comments)
      [] OTHER -> reviewOverallScore(comments)

\* C11: the score of the result an agent's analyze returns is the deduction
\* score of the findings in that result, where a finding whose severity was
\* absent counts as medium.
C11_DeductionScore ==
    (pc = "analysed" /\ context.agent \in Agents) =>
        reviewResult.score = DeductionScore(context.agent, reviewResult.comments)

\* C12: an agent whose analysis failed (a call of it threw) ends with a
\* result of score 100 and no findings, not with an exception.
C12_GracefulDegradation ==
    (pc \in {"analysed", "failed"} /\ github.failed # {}) =>
        /\ pc = "analysed"
        /\ reviewResult.score = FromInt(100)
        /\ reviewResult.comments = <<>>

\* C13: an analysis that has ended built every file prompt with the persona
\* it was requested with and reports that persona, whatever the other
\* analysis in flight did.
C13_OwnPersona ==
    \A r \in 1..Len(requests) :
        requests[r].at = "done" =>
            /\ \A i \in 1..Len(requests[r].prompts) :
                  requests[r].prompts[i] = requests[r].persona
            /\ requests[r].reported = requests[r].persona

\* the candidates that lack none of file, message and category, as returned
ValidFindings(parsed) ==
    LET valid == SelectSeq(parsed, LAMBDA c : ~(Falsy(c.file) \/ Falsy(c.message)
                                               \/ Falsy(c.category)))
    IN [i \in 1..Len(valid) |-> ValidateComment(valid[i])]

\* C14: when no LLM call fails, analyze returns a result whatever fields the
\* candidate findings lack; the result holds every candidate that lacks none
\* of file, message and category, and no finding without file or message.
C14_DropInvalidOnly ==
    (pc \in {"analysed", "failed"} /\ context.agent \in Agents
     /\ "callLLM" \notin github.failed) =>
        /\ pc = "analysed"
        /\ SelectSeq(reviewResult.comments, LAMBDA c : ~Falsy(c.category))
              = ValidFindings(context.parsed)
        /\ \A i \in 1..Len(reviewResult.comments) :
              ~Falsy(reviewResult.comments[i].file)
              /\ ~Falsy(reviewResult.comments[i].message)

\* C15: parseResponse returns a list for every response, and the list is
\* empty when it holds no finding (no object that could be one).
C15_ParserTotal ==
    pc = "parsed" =>
        ((\A i \in 1..Len(parser.comments) : parser.comments[i].t # "object")
            => parser.comments = <<>>)

\* the similarity calculateConfidence computed for a suggested fix
FixSimilarity(fix) == calculateSimilarity(fix.originalCode, trim(autoFix.response))

\* the finding has the rule of console statements and its line has one
ConsoleRule(fix) ==
    autoFix.comment[1].ruleId = "STYLE-001" /\ Includes(fix.originalCode, "console.")

QualityHigh == autoFix.comment[1].category = "quality" /\ autoFix.comment[1].severity = "high"

\* C16 as stated: a style finding of the console rule whose fix has similarity
\* above 0.7 gets confidence >= 90, and every quality finding of high severity
\* whose fix has similarity below 0.3 gets confidence <= 40.
C16_Original ==
    pc = "fixed" =>
        \A i \in 1..Len(autoFix.fixes) :
            LET fix == autoFix.fixes[i]
            IN /\ (autoFix.comment[1].category = "style" /\ ConsoleRule(fix)
                   /\ FCmp(FixSimilarity(fix), Hundredths(70)) = 1)
                      => fix.confidence >= 90
               /\ (QualityHigh /\ FCmp(FixSimilarity(fix), Hundredths(30)) = -1)
                      => fix.confidence <= 40

\* C16 amended: a style finding of the console rule whose fix has similarity
\* above 0.7 gets confidence 100; a quality finding of high severity whose fix
\* has similarity below 0.3 gets confidence 30, or 50 when it carries the
\* console rule and its line has a console statement.
C16_Monotonicity ==
    pc = "fixed" =>
        \A i \in 1..Len(autoFix.fixes) :
            LET fix == autoFix.fixes[i]
            IN /\ (autoFix.comment[1].category = "style" /\ ConsoleRule(fix)
                   /\ FCmp(FixSimilarity(fix), Hundredths(70)) = 1)
                      => fix.confidence = 100
               /\ (QualityHigh /\ FCmp(FixSimilarity(fix), Hundredths(30)) = -1)
                      => fix.confidence = IF ConsoleRule(fix) THEN 50 ELSE 30

C16_Witness ==
    /\ pc = "fixed"
    /\ Len(autoFix.fixes) = 1
    /\ QualityHigh
    /\ ~ConsoleRule(autoFix.fixes[1])
    /\ FCmp(FixSimilarity(autoFix.fixes[1]), Hundredths(30)) = -1
    /\ autoFix.fixes[1].confidence = 30

\* the line of the file a finding points at: the first one without a line number
TargetLine ==
    LET lines == split(autoFix.fileContent, "\n")
        line == autoFix.comment[1].line
    IN lines[IF line = AbsentNum THEN 1 ELSE line]

HasTargetLine ==
    LET line == autoFix.comment[1].line
    IN line = AbsentNum \/ (line >= 1 /\ line <= Len(split(autoFix.fileContent, "\n")))

\* C17: a fix text that is the target line itself yields no suggestion.
C17_NoOpRejected ==
    (pc = "fixed" /\ HasTargetLine /\ autoFix.response = TargetLine)
        => autoFix.fixes = <<>>

\* the LLM was asked for a fix of the finding's target line and answered
Proposed ==
    /\ isAutoFixable(autoFix.comment[1])
    /\ HasTargetLine
    /\ "complete" \notin github.failed

\* the lines without the k-th one
RemoveAt(lines, k) == [j \in 1..(Len(lines) - 1) |-> IF j < k THEN lines[j] ELSE lines[j + 1]]

\* C18: the proposal REMOVE_LINE yields a suggestion whose fixedCode is the
\* empty string, an empty proposal yields none, and a suggestion with empty
\* fixedCode that is applied removes the target line from the file.
C18_DeleteLineFix ==
    pc \in {"fixed", "applied"} =>
        /\ (Proposed /\ trim(autoFix.response) = "REMOVE_LINE")
              => Len(autoFix.fixes) = 1 /\ autoFix.fixes[1].fixedCode = ""
        /\ (Proposed /\ trim(autoFix.response) = "") => autoFix.fixes = <<>>
        /\ (pc = "applied" /\ branch.updates = 1 /\ autoFix.fixes[1].fixedCode = "")
              => branch.content =
                    Join(RemoveAt(split(autoFix.fileContent, "\n"), autoFix.fixes[1].line),
                         "\n")

C18_Witness ==
    /\ pc = "applied"
    /\ branch.updates = 1
    /\ trim(autoFix.response) = "REMOVE_LINE"
    /\ autoFix.fixes[1].fixedCode = ""
    /\ autoFix.fileContent = "console.log(x);\nlet x = 1;"
    /\ branch.content = "let x = 1;"

\* the fix of the finding cannot be computed: its line is beyond the end of
\* the file or negative, or the LLM call failed
Uncomputable ==
    \/ autoFix.comment[1].line > Len(split(autoFix.fileContent, "\n"))
    \/ autoFix.comment[1].line < 0 /\ autoFix.comment[1].line # AbsentNum
    \/ "complete" \in github.failed

\* C19: generateAutoFixes ends with a list of suggestions whatever the line
\* numbers are and whether or not the LLM call fails; a finding whose fix
\* cannot be computed gets no suggestion, and no suggestion has confidence 0.
C19_AbsentNotZero ==
    /\ pc \in {"fixing", "fixed", "applied"}
    /\ pc \in {"fixed", "applied"} =>
          /\ Uncomputable => autoFix.fixes = <<>>
          /\ \A i \in 1..Len(autoFix.fixes) : autoFix.fixes[i].confidence > 0

C19_Witness ==
    /\ pc = "fixed"
    /\ isAutoFixable(autoFix.comment[1])
    /\ autoFix.fileContent = "console.log(x);\nlet x = 1;"
    /\ autoFix.comment[1].line = 3
    /\ autoFix.response = "console.warn(x);"
    /\ "complete" \notin github.failed
    /\ autoFix.fixes = <<>>

\* the threshold the caller asked for: 80 when the config names none
RequestedThreshold ==
    IF branch.confidenceThreshold = AbsentNum
    THEN DefaultConfidenceThreshold
    ELSE branch.confidenceThreshold

\* C20: when no code-host call fails, a suggestion is written to the branch
\* if and only if auto-apply is on and its confidence is at least the
\* threshold of the config (80 without one); with auto-apply off the file is
\* never rewritten.
C20_AutoApplyGating ==
    (pc = "applied" /\ "updateFile" \notin github.failed) =>
        /\ \A i \in 1..Len(autoFix.fixes) :
              (branch.updates >= 1) <=>
                 (branch.autoApplyFixes
                  /\ autoFix.fixes[i].confidence >= RequestedThreshold)
        /\ ~branch.autoApplyFixes =>
              branch.updates = 0 /\ branch.content = autoFix.fileContent

\* the request carries the HMAC-SHA256 of its body under the configured secret
SignedBySecret ==
    /\ request.rawBody # AbsentStr
    /\ request.signature = Sign(webhookSecret, request.rawBody)

\* C21: a request whose x-hub-signature-256 header is missing or is not the
\* HMAC-SHA256 of the request body under the configured secret is rejected
\* as Unauthorized and never reaches handlePullRequestEvent.
C21_WebhookVerified ==
    (pc # "request" /\ ~SignedBySecret) => (pc = "unauthorized" /\ request.status = 401)

\* the deduction of the first i findings of a category list, each weighted by
\* the persona's weight for the category
RECURSIVE PersonaCategoryDeduction(_, _, _, _)
PersonaCategoryDeduction(persona, comments, category, i) ==
    IF i = 0 THEN Zero
    ELSE LET sum == PersonaCategoryDeduction(persona, comments, category, i - 1)
         IN IF categorizeComment(comments[i]) = category
            THEN FAdd(sum, FMul(reviewSeverityWeights[comments[i].severity],
                                personaWeights[persona][category]))
            ELSE sum

RECURSIVE PersonaDeduction(_, _, _)
PersonaDeduction(persona, comments, k) ==
    IF k = 0 THEN Zero
    ELSE FAdd(PersonaDeduction(persona, comments, k - 1),
              PersonaCategoryDeduction(persona, comments, analysisResultKeys[k],
                                       Len(comments)))

\* the PR Review Agent returned a result for findings that all carry a
\* severity
ReviewScored ==
    /\ pc = "analysed"
    /\ context.agent = "PR Review Agent"
    /\ Len(relevantFiles(context.files, PRReviewFileTypes)) > 0
    /\ \A i \in 1..Len(context.parsed) : context.parsed[i].severity # AbsentStr

\* C22: the score PRReviewAgentService.analyze returns is 100 less the
\* deductions of the findings, each weighted by the active persona's weight
\* for the finding's category, and is below 100 for a non-empty finding set.
C22_PersonaWeights ==
    ReviewScored =>
        /\ reviewResult.score =
              MaxZeroMinus(FromInt(100),
                           PersonaDeduction(currentPersona, context.parsed,
                                            Len(analysisResultKeys)))
        /\ Len(context.parsed) > 0 => FCmp(reviewResult.score, FromInt(100)) < 0

\* the fingerprint of a finding: file, line, first 50 characters of message
Fingerprint(c) == <<c.file, c.line, Substring0(c.message, KeyPrefixLen)>>

\* the first-encountered finding among those of the highest severity rank
\* that share the fingerprint of all[i]
FirstOfHighest(all, i) ==
    LET same == {j \in 1..Len(all) : Fingerprint(all[j]) = Fingerprint(all[i])}
        highest == {j \in same : \A k \in same :
                       severityOrder(all[j].severity) >= severityOrder(all[k].severity)}
    IN all[CHOOSE j \in highest : \A k \in highest : j <= k]

\* C23: for every fingerprint key the single finding kept is the
\* first-encountered finding among those with the highest severity rank for
\* that key.
C23_DedupTieBreak ==
    pc = "summarized" =>
        LET all == FlattenComments(agentResults)
        IN \A i \in 1..Len(all) :
              LET kept == {k \in 1..Len(aggregatedComments) :
                              Fingerprint(aggregatedComments[k]) = Fingerprint(all[i])}
              IN /\ Cardinality(kept) = 1
                 /\ \A k \in kept : aggregatedComments[k] = FirstOfHighest(all, i)

\* two findings of one key and one severity from different agents: the first
\* encountered was kept
C23_Witness ==
    /\ pc = "summarized"
    /\ LET all == FlattenComments(agentResults)
       IN /\ Len(all) = 2
          /\ Fingerprint(all[1]) = Fingerprint(all[2])
          /\ all[1].severity = all[2].severity
          /\ all[1] # all[2]
          /\ aggregatedComments = <<all[1]>>

\* JSON parsing of the response gave an array of findings to return
UsableArray(response) ==
    LET parsed == JSONParse(response)
    IN /\ parsed.ok
       /\ \/ parsed.v.t = "array"
          \/ /\ parsed.v.t = "object"
             /\ HasField(parsed.v, "comments")
             /\ GetField(parsed.v, "comments").t = "array"

\* the lines of the response that begin with '-' or '*'
BulletLines(response) ==
    SelectSeq(split(response, "\n"),
              LAMBDA line : startsWith(line, "-") \/ startsWith(line, "*"))

\* a finding of bullet-list parsing
IsBulletFinding(c) ==
    /\ c.t = "object"
    /\ HasField(c, "category") /\ GetField(c, "category") = JStr("general")
    /\ HasField(c, "severity") /\ GetField(c, "severity") = JStr("medium")
    /\ HasField(c, "file") /\ GetField(c, "file") = JStr("general")

\* C24: whenever JSON parsing fails or yields no usable array the parser
\* returns what structured-text parsing yields, and whenever that is nothing
\* it returns one finding with category general, severity medium and file
\* general for every line beginning with '-' or '*'.
C24_FallbackChain ==
    (pc = "parsed" /\ ~UsableArray(parser.response)) =>
        IF parseStructuredText(parser.response) # <<>>
        THEN parser.comments = parseStructuredText(parser.response)
        ELSE /\ Len(parser.comments) = Len(BulletLines(parser.response))
             /\ \A k \in 1..Len(parser.comments) : IsBulletFinding(parser.comments[k])

\* the confidence of a finding's fix before the similarity bonus
ConfidenceBeforeBonus(fix) ==
    BaseConfidence
    + (IF autoFix.comment[1].category = "style" THEN 30 ELSE 0)
    + (IF ConsoleRule(fix) THEN 20 ELSE 0)
    - (IF QualityHigh THEN 20 ELSE 0)

\* similarity(originalCode, fixedCode) of the codes a suggestion carries
CarriedSimilarity(fix) == calculateSimilarity(fix.originalCode, fix.fixedCode)

\* C25: the confidence of a suggestion includes the +10 bonus if and only if
\* the similarity of the originalCode and fixedCode it carries exceeds 0.7.
C25_SimilarityBonus ==
    pc = "fixed" =>
        \A i \in 1..Len(autoFix.fixes) :
            LET fix == autoFix.fixes[i]
                bonus == IF FCmp(CarriedSimilarity(fix), SimilarityThreshold) = 1
                         THEN 10 ELSE 0
            IN fix.confidence = Min(100, Max(0, ConfidenceBeforeBonus(fix) + bonus))

\* the findings of the analysis that can be placed inline
EligibleInline ==
    SelectSeq(analysis.reviewResult.comments,
              LAMBDA c : c.line # AbsentNum /\ c.line > 0 /\ ~Falsy(c.file))

\* how many of the findings have severity rank r or higher
AtLeastRank(findings, r) ==
    Cardinality({i \in 1..Len(findings) : severityOrder(findings[i].severity) >= r})

\* the enhanced review was created
EnhancedPosted ==
    /\ pc \in {"done", "fallback", "crashed"}
    /\ analysis # NoAnalysis
    /\ "createReview" \notin github.failed
    /\ Len(github.reviews) >= 1

\* C26: a posted review carries at most 30 inline comments and they are the
\* first 30 eligible findings in priority order, so no omitted eligible finding
\* has a higher severity rank than a posted one.
C26_BudgetByPriority ==
    EnhancedPosted =>
        /\ Len(github.inline) <= InlineLimit
        /\ \A r \in 1..3 :
              AtLeastRank([i \in 1..Len(github.inline) |-> github.inline[i].body], r)
                 = Min(InlineLimit, AtLeastRank(EligibleInline, r))

\* the overallScore of the ReviewResult returned
ReturnedScore == GetField(review.result, "overallScore").s

\* C27: every ReviewResult parseAIResponse returns, whichever parsing path
\* produced it, has overallScore between 1 and 10 inclusive.
C27_StandardScoreRange ==
    pc = "reviewResult" =>
        ~NumberBelow(ReturnedScore, 1) /\ ~NumberAbove(ReturnedScore, 10)


\* C28: one event creates at most one review: whatever combination of calls
\* fails, no more than one createReview succeeds, and the fallback to the
\* standard review is never entered once the enhanced review was created
C28_OneReviewPerEvent ==
    /\ Len(github.reviews) <= 1
    /\ pc = "fallback" => Len(github.reviews) = 0


\* the lines a fix puts in the place of its line: none when it removes the
\* line, else the lines of its fixedCode
FixedLines(fix) == IF fix.fixedCode = "" THEN <<>> ELSE split(fix.fixedCode, "\n")

\* the file the fixes are meant to give: every line of the generation-time
\* content that a fix targets is replaced by that fix's lines, every other
\* line is kept
RECURSIVE IntendedLines(_, _, _)
IntendedLines(lines, fixes, k) ==
    IF k = 0 THEN <<>>
    ELSE IntendedLines(lines, fixes, k - 1)
         \o (IF \E i \in 1..Len(fixes) : fixes[i].line = k
             THEN FixedLines(fixes[CHOOSE i \in 1..Len(fixes) : fixes[i].line = k])
             ELSE <<lines[k]>>)

\* several fixes, on different lines of the file, every one of them applied
SeveralFixesApplied ==
    /\ pc = "applied"
    /\ Len(autoFix.fixes) >= 2
    /\ branch.updates = Len(autoFix.fixes)
    /\ \A i, j \in 1..Len(autoFix.fixes) :
          i # j => autoFix.fixes[i].line # autoFix.fixes[j].line
    /\ \A i \in 1..Len(autoFix.fixes) :
          autoFix.fixes[i].originalCode
             = split(autoFix.fileContent, "\n")[autoFix.fixes[i].line]

\* C29: fixes applied one after the other to the same file each change the
\* line whose content was their originalCode when they were generated, and
\* leave every other line as it was, also after an earlier fix removed a line
\* or put several lines in the place of one
C29_FixesTargetIntendedLines ==
    SeveralFixesApplied =>
        split(branch.content, "\n")
           = IntendedLines(split(autoFix.fileContent, "\n"), autoFix.fixes,
                           Len(split(autoFix.fileContent, "\n")))


\* the rules some query returns
ReturnedRules ==
    {getAllRules(registry.rules)[i] : i \in 1..Len(getAllRules(registry.rules))}
    \cup UNION {{getRulesByCategory(registry.rules, category)[i] :
                    i \in 1..Len(getRulesByCategory(registry.rules, category))} :
                category \in RuleCategories}
    \cup UNION {{getRulesByFileType(registry.rules, fileType)[i] :
                    i \in 1..Len(getRulesByFileType(registry.rules, fileType))} :
                fileType \in AllFileTypes \cup {"md"}}

\* C30: once disableRule(id) has returned true, and until enableRule(id) is
\* next called, getAllRules, getRulesByCategory and getRulesByFileType return
\* no rule of that id, whatever addCustomRule and updateRule calls come between
C30_DisabledStaysHidden ==
    \A id \in registry.disabled : \A rule \in ReturnedRules : rule.id # id

====
